---------------------------- MODULE Spec2Model ----------------------------
(***************************************************************************)
(* A model of the hand-rolled mDNS codec and of the discovery/responder    *)
(* loop of the ESP32 Elgato light controller.                              *)
(*                                                                         *)
(* Bytes are naturals 0..255, a message is a sequence of bytes (C index i  *)
(* is TLA+ index i+1), a std::string is the sequence of its character      *)
(* codes.                                                                  *)
(***************************************************************************)
EXTENDS Naturals, Integers, Sequences, FiniteSets, TLC

VARIABLES
    pn_msg,     \* parse_name: the message (msg_start, msg_len = Len(pn_msg))
    pn_st,      \* parse_name: the locals offset, i, jumped, jumps, name, and pc
    pn_hist,    \* parse_name: history (start offset, loop iterations, first pointer)
    cd_pc,      \* codec: "in" (inputs chosen), then the stages of the call chain
    cd_in,      \* codec: the arguments of the function under study
    cd_out,     \* codec: what the functions returned and sent
    pc,         \* mdns_socket_task_wrapper: "recv" (in recvfrom) or "delay" (vTaskDelay)
    net_config, \* the TaskConfiguration: sock_mdns, qname, our_hostname, our_ip
    set_ip,     \* the discovered-address set (std::set<std::string>)
    src,        \* the packet on the wire as its sender composed it
    rx,         \* buf[0..len) as recvfrom filled it
    effect,     \* what the last mdns_socket_task call did
    w_pc,       \* mdns_watcher_task: where it is, see WatcherReady
    w_pending,  \* mdns_watcher_task: addresses the datagram in hand still inserts
    r_pc,       \* process_ips: where it is, see ReaderReady
    needed_ids, \* process_ips: the vector set_difference filled
    discovered_elgato_device_ips,   \* the shared set, as the tasks see it
    device_ip_to_info_map,          \* std::map from address to DeviceInfo
    device_serial_to_info_map,      \* std::map from serial number to DeviceInfo
    info,       \* process_ips: what the last sendHttpGetRequest returned
    boot_pc,    \* app_main: where it is
    boot,       \* app_main: its locals, the WiFi helper's statics, the tasks created
    lib_pc,     \* helpers: "in" (inputs chosen), then "done"
    lib_in,     \* helpers: the arguments of the function under study
    lib_out,    \* helpers: what the function returned and did
    api_pc,     \* where the HTTP API server is
    api,        \* the HTTP API server: handlers, directory, groups, last exchange
    cache_pc,   \* where the HTTP server task, the cache updater and process_ips are
    cache       \* the server cache, its mutex, the device maps and the tasks' locals

parse_vars == <<pn_msg, pn_st, pn_hist>>
codec_vars == <<cd_pc, cd_in, cd_out>>
main_vars == <<pc, net_config, set_ip, src, rx, effect>>
task_vars == <<w_pc, w_pending, r_pc, needed_ids, discovered_elgato_device_ips,
               device_ip_to_info_map, device_serial_to_info_map, info>>
boot_vars == <<boot_pc, boot>>
lib_vars == <<lib_pc, lib_in, lib_out>>
api_vars == <<api_pc, api>>
cache_vars == <<cache_pc, cache>>
vars == <<pn_msg, pn_st, pn_hist, cd_pc, cd_in, cd_out,
          pc, net_config, set_ip, src, rx, effect,
          w_pc, w_pending, r_pc, needed_ids, discovered_elgato_device_ips,
          device_ip_to_info_map, device_serial_to_info_map, info,
          boot_pc, boot,
          lib_pc, lib_in, lib_out,
          api_pc, api,
          cache_pc, cache>>

\* what an action of one area leaves alone
parse_frame == <<codec_vars, main_vars, task_vars, boot_vars, lib_vars, api_vars, cache_vars>>
codec_frame == <<parse_vars, main_vars, task_vars, boot_vars, lib_vars, api_vars, cache_vars>>
main_frame == <<parse_vars, codec_vars, task_vars, boot_vars, lib_vars, api_vars, cache_vars>>
task_frame == <<parse_vars, codec_vars, main_vars, boot_vars, lib_vars, api_vars, cache_vars>>
boot_frame == <<parse_vars, codec_vars, main_vars, task_vars, lib_vars, api_vars, cache_vars>>
lib_frame == <<parse_vars, codec_vars, main_vars, task_vars, boot_vars, api_vars, cache_vars>>
api_frame == <<parse_vars, codec_vars, main_vars, task_vars, boot_vars, lib_vars, cache_vars>>
cache_frame == <<parse_vars, codec_vars, main_vars, task_vars, boot_vars, lib_vars, api_vars>>

(***************************************************************************)
(* Bounds of the model.                                                    *)
(***************************************************************************)
MaxMsgLen == 4
MaxLabels == 5

(***************************************************************************)
(* The strings of the program and of the packets it meets, as character    *)
(* codes.                                                                  *)
(***************************************************************************)
\* "_elg._tcp.local"
S_elg == <<95, 101, 108, 103, 46, 95, 116, 99, 112, 46, 108, 111, 99, 97, 108>>
\* "_ELG._TCP.Local."
S_elg_upper == <<95, 69, 76, 71, 46, 95, 84, 67, 80, 46, 76, 111, 99, 97, 108, 46>>
\* "_http._tcp.local"
S_http == <<95, 104, 116, 116, 112, 46, 95, 116, 99, 112, 46, 108, 111, 99, 97, 108>>
\* "ESP32 Elgato Light Control"
S_instance == <<69, 83, 80, 51, 50, 32, 69, 108, 103, 97, 116, 111, 32, 76, 105, 103, 104, 116, 32, 67, 111, 110, 116, 114, 111, 108>>
\* "esp32-elgato-lights.local"
S_hostname == <<101, 115, 112, 51, 50, 45, 101, 108, 103, 97, 116, 111, 45, 108, 105, 103, 104, 116, 115, 46, 108, 111, 99, 97, 108>>
\* "ESP32-Elgato-Lights.LOCAL."
S_hostname_upper == <<69, 83, 80, 51, 50, 45, 69, 108, 103, 97, 116, 111, 45, 76, 105, 103, 104, 116, 115, 46, 76, 79, 67, 65, 76, 46>>
\* "Key Light._elg._tcp.local"
S_dev_instance == <<75, 101, 121, 32, 76, 105, 103, 104, 116, 46, 95, 101, 108, 103, 46, 95, 116, 99, 112, 46, 108, 111, 99, 97, 108>>
\* "elgato-key-light.local"
S_dev_host == <<101, 108, 103, 97, 116, 111, 45, 107, 101, 121, 45, 108, 105, 103, 104, 116, 46, 108, 111, 99, 97, 108>>
\* "printer.local"
S_other_host == <<112, 114, 105, 110, 116, 101, 114, 46, 108, 111, 99, 97, 108>>
\* "192.168.1.50"
S_ip_self == <<49, 57, 50, 46, 49, 54, 56, 46, 49, 46, 53, 48>>
\* "192.168.1.77"
S_ip_dev == <<49, 57, 50, 46, 49, 54, 56, 46, 49, 46, 55, 55>>
\* "10.0.0.9"
S_ip_other == <<49, 48, 46, 48, 46, 48, 46, 57>>
\* "0.0.0.0"
S_ip_zero == <<48, 46, 48, 46, 48, 46, 48>>
\* "255.255.255.255"
S_ip_max == <<50, 53, 53, 46, 50, 53, 53, 46, 50, 53, 53, 46, 50, 53, 53>>
\* "a=1"
S_txt1 == <<97, 61, 49>>
\* "bb=22"
S_txt2 == <<98, 98, 61, 50, 50>>
\* "kl"
S_kl == <<107, 108>>
\* "h.local"
S_hlocal == <<104, 46, 108, 111, 99, 97, 108>>
\* n times the letter x
Xs(n) == [k \in 1..n |-> 120]

(***************************************************************************)
(* Bit operations of the code on one byte, as arithmetic.                  *)
(***************************************************************************)
\* (len & 0xC0) == 0xC0: the two top bits of the byte are set
IsPointer(len) == len \div 64 = 3

\* ((len & 0x3F) << 8) | next
PointerTargetLowOnly(len, next) == next
PointerTarget(len, next) == (len % 64) * 256 + next

(***************************************************************************)
(* parse_name: the locals at function entry, and one iteration of the      *)
(* while loop.  pc is "loop" at the loop head and "done" after a return    *)
(* or after the loop ended.                                                *)
(***************************************************************************)
\* hi is the highest index of msg_start the call has read so far, -1 when
\* it has read none
PnInit(msg, offset) ==
    [offset |-> offset, i |-> offset, jumped |-> FALSE, jumps |-> 0,
     name |-> << >>, hi |-> -1,
     pc |-> IF offset >= Len(msg) THEN "done" ELSE "loop"]

Max(a, b) == IF a >= b THEN a ELSE b

\* msg_start[k]; at or beyond the received length the byte is indeterminate
\* (0 stands for it), and hi records that it was read
ByteAt(msg, k) == IF k < Len(msg) THEN msg[k + 1] ELSE 0

\* the count bytes from msg_start + first on
BytesAt(msg, first, count) == [k \in 1..count |-> ByteAt(msg, first + k - 1)]

\* if (i + 1 + len > msg_len) return name;
LabelCutIgnored(msg, i, len) == FALSE
LabelCut(msg, i, len) == i + 1 + len > Len(msg)

\* "if (!jumped) offset = ..." : the caller's offset follows i until the first jump
OffsetUpdateAlways(st, new) == new
OffsetUpdate(st, new) == IF ~st.jumped THEN new ELSE st.offset

\* the loop condition "i < msg_len && jumps < msg_len"
PnLoopCondNoCap(msg, st) == st.i < Len(msg)
PnLoopCond(msg, st) == st.i < Len(msg) /\ st.jumps < Len(msg)

PnStep(msg, st) ==
    IF ~PnLoopCond(msg, st) THEN [st EXCEPT !.pc = "done"]
    ELSE LET len == msg[st.i + 1] IN
         IF IsPointer(len) THEN
             IF st.i + 1 >= Len(msg) THEN [st EXCEPT !.pc = "done", !.hi = Max(@, st.i)]
             ELSE LET pointer == PointerTarget(len, msg[st.i + 2]) IN
                  IF pointer >= Len(msg)
                  THEN [st EXCEPT !.pc = "done", !.hi = Max(@, st.i + 1)]
                  ELSE [st EXCEPT !.offset = OffsetUpdate(st, st.i + 2),
                                  !.i = pointer,
                                  !.jumped = TRUE,
                                  !.jumps = @ + 1,
                                  !.hi = Max(@, st.i + 1)]
         ELSE IF len = 0 THEN
             [st EXCEPT !.offset = OffsetUpdate(st, st.i + 1), !.pc = "done",
                        !.hi = Max(@, st.i)]
         ELSE IF LabelCut(msg, st.i, len) THEN [st EXCEPT !.pc = "done", !.hi = Max(@, st.i)]
         ELSE [st EXCEPT
                 !.name = (IF @ # << >> THEN @ \o <<46>> ELSE @)
                              \o BytesAt(msg, st.i + 1, len),
                 !.offset = OffsetUpdate(st, st.i + 1 + len),
                 !.i = st.i + 1 + len,
                 !.hi = Max(@, st.i + len)]

\* the whole call: iterate the loop until the function returns
RECURSIVE PnRun(_, _)
PnRun(msg, st) == IF st.pc = "done" THEN st ELSE PnRun(msg, PnStep(msg, st))

\* parse_name(msg_start, msg_len, offset): the name and the offset after the call
ParseName(msg, offset) ==
    LET st == PnRun(msg, PnInit(msg, offset))
    IN  [name |-> st.name, offset |-> st.offset, jumped |-> st.jumped]

\* one call of parse_name with what it read: name, offset, jumped as
\* ParseName gives them, and hi
ParseCall(msg, offset) == PnRun(msg, PnInit(msg, offset))

(***************************************************************************)
(* The builders' helpers: the lambdas push_label, push_name, push_u16 and  *)
(* push_u32 append to the message under construction.                      *)
(***************************************************************************)
\* std::string::find(ch, start): the first position >= start, or -1 for npos
Find(s, ch, start) ==
    LET hits == {k \in start..(Len(s) - 1) : s[k + 1] = ch}
    IN  IF hits = {} THEN -1 ELSE CHOOSE k \in hits : \A j \in hits : k <= j

\* uint8_t len = (uint8_t)s.size(); push_back(len); insert(s)
PushLabelCountsTerminator(buf, s) == buf \o <<(Len(s) + 1) % 256>> \o s
PushLabel(buf, s) == buf \o <<Len(s) % 256>> \o s

\* the while loop of push_name: split on '.', push each non-empty label
RECURSIVE PushNameLoop(_, _, _)
PushNameLoop(buf, name, start) ==
    IF ~(start < Len(name)) THEN buf
    ELSE LET dot == Find(name, 46, start)
             label == IF dot = -1 THEN SubSeq(name, start + 1, Len(name))
                                  ELSE SubSeq(name, start + 1, dot)
             next == IF dot = -1 THEN Len(name) ELSE dot + 1
         IN  PushNameLoop(IF label # << >> THEN PushLabel(buf, label) ELSE buf,
                          name, next)

PushName(buf, name) == Append(PushNameLoop(buf, name, 0), 0)

PushU16(buf, val) == buf \o <<(val \div 256) % 256, val % 256>>

PushU32(buf, val) ==
    buf \o <<(val \div 16777216) % 256, (val \div 65536) % 256,
             (val \div 256) % 256, val % 256>>

\* uint16_t rdlen = response.size() - rdata_start;
\* response[pos] = (rdlen >> 8) & 0xFF; response[pos + 1] = rdlen & 0xFF
PatchRdlenUnpatched(buf, pos, rdata_start) == buf
PatchRdlen(buf, pos, rdata_start) ==
    LET rdlen == (Len(buf) - rdata_start) % 65536
    IN  [buf EXCEPT ![pos + 1] = (rdlen \div 256) % 256, ![pos + 2] = rdlen % 256]

\* the TXT loop: one length byte (uint8_t) and the bytes of each string
RECURSIVE PushTxt(_, _, _)
PushTxt(buf, txt_records, k) ==
    IF k > Len(txt_records) THEN buf
    ELSE PushTxt(buf \o <<Len(txt_records[k]) % 256>> \o txt_records[k],
                 txt_records, k + 1)

(***************************************************************************)
(* inet_pton(AF_INET) and inet_ntop(AF_INET): the library's contract.      *)
(* An address is well formed when it is four decimal numbers 0..255 of one *)
(* to three digits, without a leading zero, separated by dots.  s_addr     *)
(* holds the four octets in network order; the target is little-endian, so *)
(* read as an integer the first octet is the low byte.                     *)
(***************************************************************************)
IsDigit(c) == c >= 48 /\ c <= 57

RECURSIVE DecValue(_)
DecValue(ds) ==
    IF ds = << >> THEN 0
    ELSE DecValue(SubSeq(ds, 1, Len(ds) - 1)) * 10 + (ds[Len(ds)] - 48)

OctetOk(ds) ==
    /\ Len(ds) >= 1 /\ Len(ds) <= 3
    /\ \A k \in 1..Len(ds) : IsDigit(ds[k])
    /\ (Len(ds) > 1 => ds[1] # 48)
    /\ DecValue(ds) <= 255

\* the dot-separated parts of a string, empty parts included
RECURSIVE SplitDots(_, _)
SplitDots(s, start) ==
    LET dot == Find(s, 46, start)
    IN  IF dot = -1 THEN <<SubSeq(s, start + 1, Len(s))>>
        ELSE <<SubSeq(s, start + 1, dot)>> \o SplitDots(s, dot + 1)

\* s_addr is kept as its four bytes in memory order (network order)
InetPton(str) ==
    LET parts == SplitDots(str, 0)
    IN  IF Len(parts) = 4 /\ \A k \in 1..4 : OctetOk(parts[k])
        THEN [ok |-> TRUE, s_addr |-> [k \in 1..4 |-> DecValue(parts[k])]]
        ELSE [ok |-> FALSE, s_addr |-> <<0, 0, 0, 0>>]

RECURSIVE DecStr(_)
DecStr(n) == IF n < 10 THEN <<48 + n>> ELSE DecStr(n \div 10) \o <<48 + (n % 10)>>

\* inet_ntop on the 4 bytes at buf + offset
InetNtop(buf, offset) ==
    DecStr(buf[offset + 1]) \o <<46>> \o DecStr(buf[offset + 2]) \o <<46>>
        \o DecStr(buf[offset + 3]) \o <<46>> \o DecStr(buf[offset + 4])

\* (addr.s_addr >> shift) & 0xFF on the little-endian target: the byte
\* shift/8 of the value in memory
AddrByteBigEndian(s_addr, shift) == s_addr[4 - shift \div 8]
AddrByte(s_addr, shift) == s_addr[shift \div 8 + 1]

\* push_back((addr.s_addr >> 0) & 0xFF) ... push_back((addr.s_addr >> 24) & 0xFF)
PushAddr(buf, s_addr) ==
    buf \o <<AddrByte(s_addr, 0), AddrByte(s_addr, 8),
             AddrByte(s_addr, 16), AddrByte(s_addr, 24)>>

(***************************************************************************)
(* send_mdns_announcement.  The result is the return value and the         *)
(* datagrams handed to sendto (none when the function returns early).      *)
(* sendto is taken to succeed and to return the message size.              *)
(***************************************************************************)
\* response.resize(12) and the header assignments
AnnouncementHeader == <<0, 0, 132, 0, 0, 0, 0, 3, 0, 0, 0, 1>>

\* 1. PTR record: service_type -> full_instance
AnnPtrRecordFlush(buf, service_type, full_instance) ==
    LET b1 == PushU32(PushU16(PushU16(PushName(buf, service_type), 12), 32769), 4500)
        ptr_rdlen_pos == Len(b1)
        b2 == PushU16(b1, 0)
        ptr_rdata_start == Len(b2)
        b3 == PushName(b2, full_instance)
    IN  PatchRdlen(b3, ptr_rdlen_pos, ptr_rdata_start)
AnnPtrRecord(buf, service_type, full_instance) ==
    LET b1 == PushU32(PushU16(PushU16(PushName(buf, service_type), 12), 1), 4500)
        ptr_rdlen_pos == Len(b1)
        b2 == PushU16(b1, 0)
        ptr_rdata_start == Len(b2)
        b3 == PushName(b2, full_instance)
    IN  PatchRdlen(b3, ptr_rdlen_pos, ptr_rdata_start)

\* 2. SRV record: full_instance -> hostname:port
AnnSrvRecord(buf, full_instance, hostname, port) ==
    LET b1 == PushU32(PushU16(PushU16(PushName(buf, full_instance), 33), 32769), 120)
        srv_rdlen_pos == Len(b1)
        b2 == PushU16(b1, 0)
        srv_rdata_start == Len(b2)
        b3 == PushName(PushU16(PushU16(PushU16(b2, 0), 0), port), hostname)
    IN  PatchRdlen(b3, srv_rdlen_pos, srv_rdata_start)

\* 3. TXT record: full_instance -> txt data
AnnTxtRecord(buf, full_instance, txt_records) ==
    LET b1 == PushU32(PushU16(PushU16(PushName(buf, full_instance), 16), 32769), 4500)
        txt_rdlen_pos == Len(b1)
        b2 == PushU16(b1, 0)
        txt_rdata_start == Len(b2)
        b3 == IF txt_records = << >> THEN Append(b2, 0)
              ELSE PushTxt(b2, txt_records, 1)
    IN  PatchRdlen(b3, txt_rdlen_pos, txt_rdata_start)

\* 4. A record: hostname -> IPv4 address, up to RDLENGTH
ARecordHead(buf, hostname) ==
    PushU16(PushU32(PushU16(PushU16(PushName(buf, hostname), 1), 32769), 120), 4)

SendMdnsAnnouncement(sock_mdns, service_type, instance_name, hostname, ipv4_addr, port, txt_records) ==
    IF sock_mdns < 0 \/ service_type = << >> \/ instance_name = << >>
          \/ hostname = << >> \/ ipv4_addr = << >>
    THEN [ret |-> -1, sent |-> << >>]
    ELSE LET full_instance == instance_name \o <<46>> \o service_type
             b1 == AnnPtrRecord(AnnouncementHeader, service_type, full_instance)
             b2 == AnnSrvRecord(b1, full_instance, hostname, port)
             b3 == AnnTxtRecord(b2, full_instance, txt_records)
             b4 == ARecordHead(b3, hostname)
             addr == InetPton(ipv4_addr)
         IN  IF addr.ok
             THEN LET response == PushAddr(b4, addr.s_addr)
                  IN  [ret |-> Len(response), sent |-> <<response>>]
             ELSE [ret |-> -1, sent |-> << >>]

(***************************************************************************)
(* send_mdns_a_record.                                                     *)
(***************************************************************************)
ARecordHeader == <<0, 0, 132, 0, 0, 0, 0, 1, 0, 0, 0, 0>>

\* if (sock_mdns < 0 || hostname.empty() || ipv4_addr.empty()) return -1;
ARecordRejectedHostnameUnchecked(sock_mdns, hostname, ipv4_addr) == sock_mdns < 0 \/ ipv4_addr = << >>
ARecordRejected(sock_mdns, hostname, ipv4_addr) == sock_mdns < 0 \/ hostname = << >> \/ ipv4_addr = << >>

SendMdnsARecord(sock_mdns, hostname, ipv4_addr) ==
    IF ARecordRejected(sock_mdns, hostname, ipv4_addr)
    THEN [ret |-> -1, sent |-> << >>]
    ELSE LET b1 == ARecordHead(ARecordHeader, hostname)
             addr == InetPton(ipv4_addr)
         IN  IF addr.ok
             THEN LET response == PushAddr(b1, addr.s_addr)
                  IN  [ret |-> Len(response), sent |-> <<response>>]
             ELSE [ret |-> -1, sent |-> << >>]

(***************************************************************************)
(* send_mdns_ptr_query.                                                    *)
(***************************************************************************)
\* if (qname.empty() || sock_mdns < 0) return -1;
QueryRejectedSocketOnly(sock_mdns, qname) == sock_mdns < 0
QueryRejected(sock_mdns, qname) == qname = << >> \/ sock_mdns < 0

\* query.resize(12): ID 0, flags 0, QDCOUNT 1, ANCOUNT, NSCOUNT, ARCOUNT 0
QueryHeader == <<0, 0, 0, 0, 0, 1, 0, 0, 0, 0, 0, 0>>

\* the push_label lambda of the query: (uint8_t)s.size(), then the bytes
QueryPushLabel(query, s) == query \o <<Len(s) % 256>> \o s

\* the while loop that splits qname on '.' and pushes each non-empty label
RECURSIVE QueryNameLoop(_, _, _)
QueryNameLoop(query, qname, start) ==
    IF ~(start < Len(qname)) THEN query
    ELSE LET dot == Find(qname, 46, start)
             label == IF dot = -1 THEN SubSeq(qname, start + 1, Len(qname))
                                  ELSE SubSeq(qname, start + 1, dot)
             next == IF dot = -1 THEN Len(qname) ELSE dot + 1
         IN  QueryNameLoop(IF label # << >> THEN QueryPushLabel(query, label)
                                            ELSE query,
                           qname, next)

\* the terminator, QTYPE = PTR(12), QCLASS = IN(1)
QueryQuestionEndNoTerminator(query) == query \o <<0, 12>> \o <<0, 1>>
QueryQuestionEnd(query) == query \o <<0>> \o <<0, 12>> \o <<0, 1>>

SendMdnsPtrQuery(sock_mdns, qname) ==
    IF QueryRejected(sock_mdns, qname)
    THEN [ret |-> -1, sent |-> << >>]
    ELSE LET query == QueryQuestionEnd(QueryNameLoop(QueryHeader, qname, 0))
         IN  [ret |-> Len(query), sent |-> <<query>>]

(***************************************************************************)
(* read_u16, read_u32 and normalize_dns_name.                              *)
(***************************************************************************)
ReadU16(buf, offset) == buf[offset + 1] * 256 + buf[offset + 2]

\* a 32-bit value is kept as its two 16-bit halves: hi * 65536 + lo
ReadU32(buf, offset) == [hi |-> ReadU16(buf, offset), lo |-> ReadU16(buf, offset + 2)]

\* std::tolower in the "C" locale
ToLowerSkipped(c) == c
ToLower(c) == IF c >= 65 /\ c <= 90 THEN c + 32 ELSE c

NormalizeDnsName(s) ==
    LET out == IF s # << >> /\ s[Len(s)] = 46 THEN SubSeq(s, 1, Len(s) - 1) ELSE s
    IN  [k \in 1..Len(out) |-> ToLower(out[k])]

(***************************************************************************)
(* mdns_socket_task after recvfrom returned a datagram: buf holds the len  *)
(* received bytes (len = Len(buf)).  cfg is the task's configuration       *)
(* [sock_mdns, qname, our_hostname, our_ip].  The result lists the         *)
(* datagrams sent and the addresses inserted into set_ip, in order, and,   *)
(* for the claims, the questions examined and the records walked.          *)
(***************************************************************************)
NoEffectInsertsOwnAddress == [sent |-> << >>, ins |-> <<S_ip_self>>, examined |-> 0, recs |-> << >>, end |-> 0, hi |-> -1, turns |-> 0]
NoEffect == [sent |-> << >>, ins |-> << >>, examined |-> 0, recs |-> << >>, end |-> 0, hi |-> -1, turns |-> 0]

\* the call has read buf up to index k, and its loop has begun one more turn
ReadTo(acc, k) == [acc EXCEPT !.hi = Max(@, k)]
Turn(acc) == [acc EXCEPT !.turns = @ + 1]

\* the condition under which a question is answered
QuestionMatches(qtype, qclass, qname_parsed, normalized_hostname) ==
    /\ (qtype = 1 \/ qtype = 255)
    /\ (qclass = 1 \/ qclass = 255)
    /\ NormalizeDnsName(qname_parsed) = normalized_hostname

\* the for loop over the questions of a query
RECURSIVE QuestionLoopNoBreak(_, _, _, _, _, _)
QuestionLoopNoBreak(buf, cfg, qdcount, q, offset, acc) ==
    IF ~(q < qdcount) THEN acc
    ELSE IF offset >= Len(buf) THEN Turn(acc)
    ELSE LET pn == ParseCall(buf, offset)
             named == ReadTo(Turn(acc), pn.hi)
         IN  IF pn.offset + 4 > Len(buf) THEN named
             ELSE LET qtype == ReadU16(buf, pn.offset)
                      qclass == ReadU16(buf, pn.offset + 2)
                      seen == [ReadTo(named, pn.offset + 3) EXCEPT
                                 !.examined = @ + 1, !.end = pn.offset + 4]
                  IN  IF QuestionMatches(qtype, qclass, pn.name,
                                         NormalizeDnsName(cfg.our_hostname))
                      THEN QuestionLoopNoBreak(buf, cfg, qdcount, q + 1, pn.offset + 4,
                              [seen EXCEPT !.sent = @ \o
                                  SendMdnsARecord(cfg.sock_mdns, cfg.our_hostname,
                                                  cfg.our_ip).sent])
                      ELSE QuestionLoopNoBreak(buf, cfg, qdcount, q + 1,
                                               pn.offset + 4, seen)

RECURSIVE QuestionLoop(_, _, _, _, _, _)
QuestionLoop(buf, cfg, qdcount, q, offset, acc) ==
    IF ~(q < qdcount) THEN acc
    ELSE IF offset >= Len(buf) THEN Turn(acc)
    ELSE LET pn == ParseCall(buf, offset)
             named == ReadTo(Turn(acc), pn.hi)
         IN  IF pn.offset + 4 > Len(buf) THEN named
             ELSE LET qtype == ReadU16(buf, pn.offset)
                      qclass == ReadU16(buf, pn.offset + 2)
                      seen == [ReadTo(named, pn.offset + 3) EXCEPT
                                 !.examined = @ + 1, !.end = pn.offset + 4]
                  IN  IF QuestionMatches(qtype, qclass, pn.name,
                                         NormalizeDnsName(cfg.our_hostname))
                      THEN [seen EXCEPT !.sent = @ \o
                               SendMdnsARecord(cfg.sock_mdns, cfg.our_hostname,
                                               cfg.our_ip).sent]
                      ELSE QuestionLoop(buf, cfg, qdcount, q + 1, pn.offset + 4, seen)

\* the for loop that skips the questions of a response; the offset after it
RECURSIVE SkipQuestions(_, _, _, _, _)
SkipQuestions(buf, qdcount, q, offset, acc) ==
    IF ~(q < qdcount) THEN [offset |-> offset, acc |-> acc]
    ELSE LET pn == ParseCall(buf, offset)
             named == ReadTo(Turn(acc), pn.hi)
         IN  IF pn.offset + 4 > Len(buf) THEN [offset |-> Len(buf), acc |-> named]
             ELSE SkipQuestions(buf, qdcount, q + 1, pn.offset + 4, named)

\* the nested ifs around set_ip.insert
InsertsAddressAnyOwner(clas, type, rdlen, found_matching_qname) ==
    (clas = 1 \/ clas = 32769) /\ type = 1 /\ rdlen = 4
InsertsAddress(clas, type, rdlen, found_matching_qname) ==
    (clas = 1 \/ clas = 32769) /\ type = 1 /\ rdlen = 4 /\ found_matching_qname

\* found_matching_qname |= (normalize_dns_name(name) == normalized_qname)
FlagUpdatePerRecord(found_matching_qname, name, normalized_qname) ==
    NormalizeDnsName(name) = normalized_qname
FlagUpdate(found_matching_qname, name, normalized_qname) ==
    found_matching_qname \/ NormalizeDnsName(name) = normalized_qname

\* break out of the record loop: what was inserted so far stays inserted
AbortRecordsDiscarding(acc, offset) == [acc EXCEPT !.ins = << >>, !.recs = << >>, !.end = offset]
AbortRecords(acc, offset) == [acc EXCEPT !.end = offset]

\* the for loop over answers + authorities + additionals
RECURSIVE RecordLoop(_, _, _, _, _, _, _)
RecordLoop(buf, normalized_qname, rr_total, rr, offset, found_matching_qname, acc) ==
    IF ~(rr < rr_total) THEN [acc EXCEPT !.end = offset]
    ELSE IF offset >= Len(buf) THEN AbortRecords(Turn(acc), offset)
    ELSE LET pn == ParseCall(buf, offset)
             named == ReadTo(Turn(acc), pn.hi)
         IN  IF pn.offset + 10 > Len(buf) THEN AbortRecords(named, pn.offset)
             ELSE LET type == ReadU16(buf, pn.offset)
                      clas == ReadU16(buf, pn.offset + 2)
                      ttl == ReadU32(buf, pn.offset + 4)
                      rdlen == ReadU16(buf, pn.offset + 8)
                      off == pn.offset + 10
                      found == FlagUpdate(found_matching_qname, pn.name, normalized_qname)
                      fixed == ReadTo(named, off - 1)
                      \* inet_ntop reads the 4 bytes whether or not the name
                      \* matched
                      whole == IF (clas = 1 \/ clas = 32769) /\ type = 1 /\ rdlen = 4
                               THEN ReadTo(fixed, off + 3) ELSE fixed
                  IN  IF off + rdlen > Len(buf) THEN AbortRecords(fixed, off)
                      ELSE RecordLoop(buf, normalized_qname, rr_total, rr + 1,
                              off + rdlen, found,
                              [whole EXCEPT
                                 !.ins = IF InsertsAddress(clas, type, rdlen, found)
                                         THEN Append(@, InetNtop(buf, off)) ELSE @,
                                 !.recs = Append(@, [name |-> pn.name, type |-> type,
                                                     clas |-> clas, ttl |-> ttl,
                                                     rdlen |-> rdlen, rdata |-> off])])

\* bool found_matching_qname = false
FoundAtStartLeftSet == TRUE
FoundAtStart == FALSE

\* if (is_query && qdcount > 0) ... else if (!is_query) ...
MdnsSocketTaskWalksQueries(cfg, buf) ==
    IF Len(buf) < 12 THEN NoEffect
    ELSE LET qdcount == ReadU16(buf, 4)
             header == ReadTo(NoEffect, 11)
             asked == IF ReadU16(buf, 2) < 32768 /\ qdcount > 0
                      THEN QuestionLoop(buf, cfg, qdcount, 0, 12, header)
                      ELSE header
             skipped == SkipQuestions(buf, qdcount, 0, 12, header)
             walked == RecordLoop(buf, NormalizeDnsName(cfg.qname),
                                  ReadU16(buf, 6) + ReadU16(buf, 8) + ReadU16(buf, 10), 0,
                                  skipped.offset, FoundAtStart, skipped.acc)
         IN  [walked EXCEPT !.sent = asked.sent]

MdnsSocketTask(cfg, buf) ==
    IF Len(buf) < 12 THEN NoEffect
    ELSE LET flags == ReadU16(buf, 2)
             qdcount == ReadU16(buf, 4)
             ancount == ReadU16(buf, 6)
             nscount == ReadU16(buf, 8)
             arcount == ReadU16(buf, 10)
             is_query == flags < 32768
             header == ReadTo(NoEffect, 11)
         IN  IF is_query /\ qdcount > 0
             THEN QuestionLoop(buf, cfg, qdcount, 0, 12, header)
             ELSE IF ~is_query
             THEN LET skipped == SkipQuestions(buf, qdcount, 0, 12, header)
                  IN  RecordLoop(buf, NormalizeDnsName(cfg.qname),
                                 ancount + nscount + arcount, 0,
                                 skipped.offset, FoundAtStart, skipped.acc)
             ELSE header

(***************************************************************************)
(* SpecParse: parse_name run one loop iteration at a time on every byte    *)
(* sequence over a small alphabet and every start offset.                  *)
(***************************************************************************)
\* zero byte, small lengths and pointer low bytes, a letter, the pointer
\* marker 0xC0
ParseAlphabet == {0, 1, 2, 3, 97, 192}

RECURSIVE SeqsUpTo(_, _)
SeqsUpTo(S, n) ==
    IF n = 0 THEN {<< >>}
    ELSE LET shorter == SeqsUpTo(S, n - 1)
         IN  shorter \cup {Append(s, b) : s \in {t \in shorter : Len(t) = n - 1}, b \in S}

\* a default-constructed DeviceInfo, in the fields the directory is keyed by
NoInfo == [ip |-> << >>, serialNumber |-> "", error |-> ""]

ParseIdle ==
    /\ pn_msg = << >>
    /\ pn_st = PnInit(<< >>, 0)
    /\ pn_hist = [start |-> 0, iters |-> 0, first_ptr |-> -1,
                  end_zero |-> -1, bad_ptr |-> FALSE, before |-> << >>]

CodecIdle ==
    /\ cd_pc = "idle"
    /\ cd_in = [kind |-> "none"]
    /\ cd_out = [kind |-> "none"]

\* the wrapper task has not been started: no configuration, nothing received
NoPacket == [kind |-> "none"]

MainIdle ==
    /\ pc = "idle"
    /\ net_config = [sock_mdns |-> -1, qname |-> << >>, our_hostname |-> << >>, our_ip |-> << >>]
    /\ set_ip = {}
    /\ src = NoPacket
    /\ rx = << >>
    /\ effect = [before |-> {}, res |-> NoEffect]

\* the tasks have not been created
TasksIdle ==
    /\ w_pc = "idle"
    /\ w_pending = << >>
    /\ r_pc = "idle"
    /\ needed_ids = << >>
    /\ discovered_elgato_device_ips = {}
    /\ device_ip_to_info_map = << >>
    /\ device_serial_to_info_map = << >>
    /\ info = NoInfo

\* app_main has not been entered: nothing read, nothing created
NoBoot ==
    [wifi_ssid |-> "", wifi_password |-> "", link |-> "off", s_retry_num |-> 0,
     bits |-> {}, s_sta_netif |-> "NULL", netif |-> "NULL", outcome |-> "none",
     wifi_ip |-> "", setup |-> "none", mdns_sock |-> 0, tasks |-> {},
     http_server |-> "NULL", reconnects |-> 0,
     last_event |-> [id |-> "none", connect |-> FALSE]]

BootIdle ==
    /\ boot_pc = "idle"
    /\ boot = NoBoot

\* no helper has been called
NoApi == [server |-> "NULL", uri_handlers |-> {}, device_serial_map |-> << >>, cached_devices_json |-> {}, groupMap |-> << >>, nvs |-> << >>, request |-> [method |-> "none"], at_request |-> [groupMap |-> << >>, directory |-> {}, nvs |-> << >>], response |-> [handler |-> "none", status |-> 0], puts |-> << >>, steps |-> << >>]

ApiIdle ==
    /\ api_pc = "idle"
    /\ api = NoApi

NoCache == [mutex |-> "free", cached_devices_json |-> << >>, device_map |-> << >>, device_serial_map |-> << >>, new_json |-> << >>, json |-> << >>, did_read |-> FALSE, serial |-> << >>, found |-> FALSE, item |-> << >>, info |-> [ip |-> << >>, serialNumber |-> << >>, error |-> ""], torn |-> {}, access |-> [task |-> "none", holder |-> "none"], response |-> [status |-> 0]]

CacheIdle ==
    /\ cache_pc = [httpd |-> "off", updater |-> "off", process_ips |-> "off"]
    /\ cache = NoCache

LibIdle ==
    /\ lib_pc = "idle"
    /\ lib_in = [kind |-> "none"]
    /\ lib_out = [kind |-> "none"]

ParseInit ==
    /\ CodecIdle
    /\ CacheIdle
    /\ ApiIdle
    /\ LibIdle
    /\ BootIdle
    /\ MainIdle
    /\ TasksIdle
    /\ pn_msg \in SeqsUpTo(ParseAlphabet, MaxMsgLen)
    /\ \E off \in 0..MaxMsgLen :
          /\ off <= Len(pn_msg)
          /\ pn_st = PnInit(pn_msg, off)
          /\ pn_hist = [start |-> off, iters |-> 0, first_ptr |-> -1,
                        end_zero |-> -1, bad_ptr |-> FALSE, before |-> << >>]

\* the byte the loop head is looking at is a pointer that will be followed
TakesPointer(msg, st) ==
    /\ PnLoopCond(msg, st)
    /\ IsPointer(msg[st.i + 1])
    /\ st.i + 1 < Len(msg)
    /\ (msg[st.i + 1] % 64) * 256 + msg[st.i + 2] < Len(msg)

\* the byte the loop head is looking at is a pointer to a target >= msg_len
SeesBadPointer(msg, st) ==
    /\ PnLoopCond(msg, st)
    /\ IsPointer(msg[st.i + 1])
    /\ st.i + 1 < Len(msg)
    /\ (msg[st.i + 1] % 64) * 256 + msg[st.i + 2] >= Len(msg)

ParseStep ==
    /\ pn_st.pc = "loop"
    /\ pn_st' = PnStep(pn_msg, pn_st)
    /\ pn_hist' = [pn_hist EXCEPT
          !.iters = @ + 1,
          !.first_ptr = IF @ = -1 /\ TakesPointer(pn_msg, pn_st) THEN pn_st.i ELSE @,
          !.end_zero = IF PnLoopCond(pn_msg, pn_st) /\ pn_msg[pn_st.i + 1] = 0
                       THEN pn_st.i ELSE @,
          !.bad_ptr = SeesBadPointer(pn_msg, pn_st),
          !.before = pn_st.name]
    /\ UNCHANGED <<pn_msg, parse_frame>>

ParseNext == ParseStep

SpecParse == ParseInit /\ [][ParseNext]_vars

(***************************************************************************)
(* Claims about parse_name, checked under SpecParse.                       *)
(***************************************************************************)
\* a bound on the loop iterations that depends on the message length only
IterBound(n) == (n + 1) * (n + 1)

\* C5: parse_name terminates on every byte sequence and start offset: it
\* follows at most msg_len pointer jumps, its loop runs a number of
\* iterations bounded by the message length, and a pointer whose target is
\* >= msg_len ends decoding at once with the name assembled so far.
C5_ParseNameTerminates ==
    /\ pn_st.jumps <= Len(pn_msg)
    /\ pn_hist.iters <= IterBound(Len(pn_msg))
    /\ pn_hist.bad_ptr => pn_st.pc = "done" /\ pn_st.name = pn_hist.before

\* a cyclic chain of pointers was followed until the jump cap ended the loop,
\* with labels decoded on the way
C5_Witness ==
    /\ pn_st.pc = "done"
    /\ Len(pn_msg) >= 2
    /\ pn_st.jumps = Len(pn_msg)
    /\ pn_st.name # << >>

\* C7: once an in-range pointer was followed, the caller's offset is the
\* position of the first pointer plus 2, whatever is visited afterwards; when
\* no pointer is taken and the name ends with a zero byte, the offset is the
\* position just past that zero byte.
C7_OffsetAfterCall ==
    /\ pn_hist.first_ptr # -1 => pn_st.offset = pn_hist.first_ptr + 2
    /\ (pn_st.pc = "done" /\ ~pn_st.jumped /\ pn_hist.end_zero # -1)
          => pn_st.offset = pn_hist.end_zero + 1

\* two or more pointers and a label after the first one were visited
C7_Witness ==
    /\ pn_st.pc = "done"
    /\ pn_st.jumps >= 2
    /\ pn_st.name # << >>
    /\ pn_hist.first_ptr > pn_hist.start
    /\ pn_st.offset = pn_hist.first_ptr + 2

(***************************************************************************)
(* The wire format of RFC 1035, written from the format's definition: what *)
(* the messages of other hosts look like and what the claims compare the   *)
(* builders' output with.                                                  *)
(***************************************************************************)
RECURSIVE Flatten(_)
Flatten(ss) == IF ss = << >> THEN << >> ELSE Head(ss) \o Flatten(Tail(ss))

RECURSIVE JoinDots(_)
JoinDots(labels) ==
    IF Len(labels) = 1 THEN labels[1]
    ELSE labels[1] \o <<46>> \o JoinDots(Tail(labels))

\* each label behind its length byte, without the terminator
WireLabels(labels) == Flatten([k \in 1..Len(labels) |-> <<Len(labels[k])>> \o labels[k]])

NonEmptyParts(parts) == SelectSeq(parts, LAMBDA l : l # << >>)

\* a dotted name as length-prefixed labels and the zero terminator
WireName(name) == WireLabels(NonEmptyParts(SplitDots(name, 0))) \o <<0>>

U16BE(v) == <<v \div 256, v % 256>>
U32BE(v) == <<v \div 16777216, (v \div 65536) % 256, (v \div 256) % 256, v % 256>>
U32(v) == [hi |-> v \div 65536, lo |-> v % 65536]

\* character-strings behind their length bytes, until the data end
RECURSIVE TxtDecode(_)
TxtDecode(data) ==
    IF data = << >> THEN << >>
    ELSE IF 1 + data[1] > Len(data) THEN <<data>>
    ELSE <<SubSeq(data, 2, 1 + data[1])>>
            \o TxtDecode(SubSeq(data, 2 + data[1], Len(data)))

Zeros(n) == [k \in 1..n |-> 0]

(***************************************************************************)
(* SpecCodec: the encoders and the decoder applied to inputs drawn from    *)
(* bounded sets.                                                           *)
(*   kind "name": a name is encoded by push_name, then decoded at 0.       *)
(*   kind "ptr":  a name written in full at offset K, and referred to      *)
(*                after some leading labels by a pointer (message m1) or   *)
(*                written out again (message m2); both are decoded.        *)
(*   kind "ann":  send_mdns_announcement, then the receiver's record walk  *)
(*                on the datagram sent.                                    *)
(***************************************************************************)
CodecLabels == {<<97>>, <<98, 99>>, <<95, 101, 108, 103>>, Xs(63)}

RECURSIVE LabelSeqs(_)
LabelSeqs(n) ==
    IF n = 0 THEN {<< >>}
    ELSE LET shorter == LabelSeqs(n - 1)
         IN  shorter \cup {Append(ls, l) : ls \in {t \in shorter : Len(t) = n - 1},
                                            l \in CodecLabels}

NameInputs ==
    {[kind |-> "name", name |-> JoinDots(ls)] : ls \in LabelSeqs(MaxLabels) \ {<< >>}}

PtrInputs ==
    {[kind |-> "ptr", name |-> n, prefix |-> pre, K |-> k] :
        n \in {S_elg, S_dev_host, S_kl},
        pre \in {<< >>, <<S_kl>>, <<Xs(63), <<97>>>>},
        k \in {0, 12, 300}}

AnnInputs ==
    {[kind |-> "ann", sock_mdns |-> 0, service_type |-> st, instance_name |-> inst,
      hostname |-> h, ipv4_addr |-> ip, port |-> port, txt_records |-> txt] :
        st \in {S_http, S_elg},
        inst \in {S_instance, S_kl, Xs(63)},
        h \in {S_hostname, S_hlocal},
        ip \in {S_ip_self, S_ip_other, S_ip_zero, S_ip_max},
        port \in {0, 80, 9123, 65535},
        txt \in {<< >>, <<S_txt1>>, <<S_txt1, S_txt2>>, <<<< >>>>,
                 <<S_txt1, << >>>>, <<Xs(255)>>}}

\* strings that are no dotted quad: "abc", "1.2.3.4.5", "256.1.1.1", "1.2.3.",
\* "1..2.3", "1.2.3.x", "192.168.1.2555"
MalformedAddresses ==
    { <<97, 98, 99>>,
      <<49, 46, 50, 46, 51, 46, 52, 46, 53>>,
      <<50, 53, 54, 46, 49, 46, 49, 46, 49>>,
      <<49, 46, 50, 46, 51, 46>>,
      <<49, 46, 46, 50, 46, 51>>,
      <<49, 46, 50, 46, 51, 46, 120>>,
      S_ip_self \o <<53, 53>> }

\* announcements with one or more arguments the function refuses
AnnRefusedInputs ==
    {[kind |-> "ann", sock_mdns |-> sock, service_type |-> st, instance_name |-> inst,
      hostname |-> h, ipv4_addr |-> ip, port |-> 80, txt_records |-> <<S_txt1>>] :
        sock \in {-1, 3},
        st \in {<< >>, S_elg},
        inst \in {<< >>, S_kl},
        h \in {<< >>, S_hlocal},
        ip \in {<< >>, S_ip_self} \cup MalformedAddresses}

ARecordInputs ==
    {[kind |-> "arec", sock_mdns |-> sock, hostname |-> h, ipv4_addr |-> ip] :
        sock \in {-1, 0, 3},
        h \in {<< >>, S_hostname, S_hlocal, S_elg_upper, Xs(63)},
        ip \in {<< >>, S_ip_self, S_ip_dev, S_ip_other, S_ip_zero, S_ip_max}
                 \cup MalformedAddresses}

\* "a..b": an empty segment between two dots
S_gap == <<97, 46, 46, 98>>
\* ".": no label at all
S_dot == <<46>>

QueryInputs ==
    {[kind |-> "query", sock_mdns |-> sock, qname |-> q] :
        sock \in {-1, 0, 3},
        q \in {<< >>, S_elg, S_elg_upper, S_gap, S_dot, S_dev_instance, Xs(63),
               Xs(64) \o <<46>> \o S_kl, Xs(255), Xs(256), Xs(300) \o <<46>> \o S_elg}}

\* the task configuration of the receiver that walks the announcement
WalkerCfgSeeksOwnService ==
    [sock_mdns |-> 0, qname |-> S_http, our_hostname |-> S_hostname, our_ip |-> S_ip_self]
WalkerCfg ==
    [sock_mdns |-> 0, qname |-> S_elg, our_hostname |-> S_hostname, our_ip |-> S_ip_self]

CodecInit ==
    /\ ParseIdle
    /\ CacheIdle
    /\ ApiIdle
    /\ LibIdle
    /\ BootIdle
    /\ MainIdle
    /\ TasksIdle
    /\ cd_pc = "in"
    /\ cd_in \in NameInputs \cup PtrInputs \cup AnnInputs \cup QueryInputs
                  \cup AnnRefusedInputs \cup ARecordInputs
    /\ cd_out = [kind |-> "none"]

EncodeName ==
    /\ cd_pc = "in" /\ cd_in.kind = "name"
    /\ cd_out' = [bytes |-> PushName(<< >>, cd_in.name)]
    /\ cd_pc' = "encoded"
    /\ UNCHANGED <<cd_in, codec_frame>>

DecodeName ==
    /\ cd_pc = "encoded" /\ cd_in.kind = "name"
    /\ cd_out' = [bytes |-> cd_out.bytes, dec |-> ParseName(cd_out.bytes, 0)]
    /\ cd_pc' = "done"
    /\ UNCHANGED <<cd_in, codec_frame>>

WritePointerForms ==
    /\ cd_pc = "in" /\ cd_in.kind = "ptr"
    /\ LET front == Zeros(cd_in.K) \o WireName(cd_in.name) \o <<0, 12, 0, 1>>
                       \o WireLabels(cd_in.prefix)
           tail == <<0, 1, 128, 1>>
       IN  cd_out' = [m1 |-> front \o <<192 + cd_in.K \div 256, cd_in.K % 256>> \o tail,
                      m2 |-> front \o WireName(cd_in.name) \o tail,
                      at |-> cd_in.K + Len(WireName(cd_in.name)) + 4]
    /\ cd_pc' = "encoded"
    /\ UNCHANGED <<cd_in, codec_frame>>

DecodePointerForms ==
    /\ cd_pc = "encoded" /\ cd_in.kind = "ptr"
    /\ cd_out' = [m1 |-> cd_out.m1, m2 |-> cd_out.m2, at |-> cd_out.at,
                  d1 |-> ParseName(cd_out.m1, cd_out.at),
                  d2 |-> ParseName(cd_out.m2, cd_out.at)]
    /\ cd_pc' = "done"
    /\ UNCHANGED <<cd_in, codec_frame>>

Announce ==
    /\ cd_pc = "in" /\ cd_in.kind = "ann"
    /\ cd_out' = SendMdnsAnnouncement(cd_in.sock_mdns, cd_in.service_type,
                                      cd_in.instance_name, cd_in.hostname,
                                      cd_in.ipv4_addr, cd_in.port, cd_in.txt_records)
    /\ cd_pc' = "sent"
    /\ UNCHANGED <<cd_in, codec_frame>>

WalkAnnouncement ==
    /\ cd_pc = "sent" /\ cd_in.kind = "ann" /\ cd_out.sent # << >>
    /\ cd_out' = [ret |-> cd_out.ret, sent |-> cd_out.sent,
                  walk |-> MdnsSocketTask(WalkerCfg, cd_out.sent[1])]
    /\ cd_pc' = "done"
    /\ UNCHANGED <<cd_in, codec_frame>>

Query ==
    /\ cd_pc = "in" /\ cd_in.kind = "query"
    /\ cd_out' = SendMdnsPtrQuery(cd_in.sock_mdns, cd_in.qname)
    /\ cd_pc' = "sent"
    /\ UNCHANGED <<cd_in, codec_frame>>

AnnounceARecord ==
    /\ cd_pc = "in" /\ cd_in.kind = "arec"
    /\ cd_out' = SendMdnsARecord(cd_in.sock_mdns, cd_in.hostname, cd_in.ipv4_addr)
    /\ cd_pc' = "sent"
    /\ UNCHANGED <<cd_in, codec_frame>>

\* the PTR query the firmware multicast comes back to its own socket
ReceiveOwnQuery ==
    /\ cd_pc = "sent" /\ cd_in.kind = "query" /\ cd_out.sent # << >>
    /\ cd_out' = [ret |-> cd_out.ret, sent |-> cd_out.sent,
                  walk |-> MdnsSocketTask(WalkerCfg, cd_out.sent[1])]
    /\ cd_pc' = "done"
    /\ UNCHANGED <<cd_in, codec_frame>>

\* the A-record message the firmware multicast comes back to its own socket
ReceiveOwnARecord ==
    /\ cd_pc = "sent" /\ cd_in.kind = "arec" /\ cd_out.sent # << >>
    /\ cd_out' = [ret |-> cd_out.ret, sent |-> cd_out.sent,
                  walk |-> MdnsSocketTask(WalkerCfg, cd_out.sent[1])]
    /\ cd_pc' = "done"
    /\ UNCHANGED <<cd_in, codec_frame>>

CodecNext ==
    \/ EncodeName
    \/ DecodeName
    \/ WritePointerForms
    \/ DecodePointerForms
    \/ Announce
    \/ WalkAnnouncement
    \/ Query
    \/ AnnounceARecord
    \/ ReceiveOwnQuery
    \/ ReceiveOwnARecord

SpecCodec == CodecInit /\ [][CodecNext]_vars

(***************************************************************************)
(* Claims about the codec, checked under SpecCodec.                        *)
(***************************************************************************)
\* C6: decompression equivalence: a name that ends, after its leading
\* labels, in a pointer to a name written in full at offset K decodes to the
\* same string as the message in which that name is written out in full at
\* the pointer's place (the leading labels followed by the name).
C6_DecompressionEquivalence ==
    (cd_pc = "done" /\ cd_in.kind = "ptr") =>
        /\ cd_out.d1.name = cd_out.d2.name
        /\ cd_out.d1.name = JoinDots(Append(cd_in.prefix, cd_in.name))

\* a pointer to an offset above 255 after two leading labels was decoded
C6_Witness ==
    /\ cd_pc = "done" /\ cd_in.kind = "ptr"
    /\ cd_in.K > 255 /\ Len(cd_in.prefix) = 2
    /\ cd_out.d1.jumped /\ ~cd_out.d2.jumped
    /\ cd_out.d1.name = cd_out.d2.name

\* C8: name round trip: for a name of 1..MaxLabels non-empty labels of at
\* most 63 bytes, decoding at offset 0 what push_name wrote returns the name
\* and leaves the offset at the length of the encoded bytes.
C8_NameRoundTrip ==
    (cd_pc = "done" /\ cd_in.kind = "name") =>
        /\ cd_out.dec.name = cd_in.name
        /\ cd_out.dec.offset = Len(cd_out.bytes)

\* a name of five labels, one of them 63 bytes long, went through
C8_Witness ==
    /\ cd_pc = "done" /\ cd_in.kind = "name"
    /\ Len(SplitDots(cd_in.name, 0)) = 5
    /\ \E k \in 1..5 : Len(SplitDots(cd_in.name, 0)[k]) = 63
    /\ cd_out.dec.name = cd_in.name
    /\ cd_out.dec.offset = Len(cd_out.bytes)

\* the announcement sent, the records the receiver's walk saw, and the full
\* instance name instance_name.service_type
AnnMsg == cd_out.sent[1]
AnnRecs == cd_out.walk.recs
AnnFull == cd_in.instance_name \o <<46>> \o cd_in.service_type
AnnRdata(k) == SubSeq(AnnMsg, AnnRecs[k].rdata + 1, AnnRecs[k].rdata + AnnRecs[k].rdlen)

\* what the walk must yield whatever the TXT strings are: four records PTR,
\* SRV, TXT, A with the owners and RDATA of the inputs, every RDLENGTH
\* leading exactly to the next record, and the walk ending at the message end
AnnWalkRoundTrip ==
    /\ Len(AnnRecs) = 4
    /\ cd_out.walk.end = Len(AnnMsg)
    \* PTR
    /\ AnnRecs[1].type = 12
    /\ AnnRecs[1].name = cd_in.service_type
    /\ ParseName(AnnMsg, AnnRecs[1].rdata).name = AnnFull
    /\ ParseName(AnnMsg, AnnRecs[1].rdata).offset = AnnRecs[1].rdata + AnnRecs[1].rdlen
    \* SRV
    /\ AnnRecs[2].type = 33
    /\ AnnRecs[2].name = AnnFull
    /\ ReadU16(AnnMsg, AnnRecs[2].rdata) = 0
    /\ ReadU16(AnnMsg, AnnRecs[2].rdata + 2) = 0
    /\ ReadU16(AnnMsg, AnnRecs[2].rdata + 4) = cd_in.port
    /\ ParseName(AnnMsg, AnnRecs[2].rdata + 6).name = cd_in.hostname
    /\ ParseName(AnnMsg, AnnRecs[2].rdata + 6).offset = AnnRecs[2].rdata + AnnRecs[2].rdlen
    \* TXT
    /\ AnnRecs[3].type = 16
    /\ AnnRecs[3].name = AnnFull
    \* A
    /\ AnnRecs[4].type = 1
    /\ AnnRecs[4].name = cd_in.hostname
    /\ AnnRecs[4].rdlen = 4
    /\ InetNtop(AnnMsg, AnnRecs[4].rdata) = cd_in.ipv4_addr

AnnExpectedTxtData ==
    IF cd_in.txt_records = << >> THEN <<0>> ELSE WireLabels(cd_in.txt_records)

AnnExpectedLayout ==
    <<0, 0>> \o U16BE(33792) \o U16BE(0) \o U16BE(3) \o U16BE(0) \o U16BE(1)
    \o WireName(cd_in.service_type) \o U16BE(12) \o U16BE(1) \o U32BE(4500)
        \o U16BE(Len(WireName(AnnFull))) \o WireName(AnnFull)
    \o WireName(AnnFull) \o U16BE(33) \o U16BE(32769) \o U32BE(120)
        \o U16BE(6 + Len(WireName(cd_in.hostname)))
        \o U16BE(0) \o U16BE(0) \o U16BE(cd_in.port) \o WireName(cd_in.hostname)
    \o WireName(AnnFull) \o U16BE(16) \o U16BE(32769) \o U32BE(4500)
        \o U16BE(Len(AnnExpectedTxtData)) \o AnnExpectedTxtData
    \o WireName(cd_in.hostname) \o U16BE(1) \o U16BE(32769) \o U32BE(120) \o U16BE(4)

\* C10: every message built by send_mdns_announcement is the header with ID
\* 0, flags 0x8400 and counts 0, 3, 0, 1, then the PTR record (class 1, TTL
\* 4500), the SRV record (class 0x8001, TTL 120, RDATA 0, 0, port, hostname),
\* the TXT record (class 0x8001, TTL 4500, the length-prefixed strings or one
\* zero byte) and the A record (class 0x8001, TTL 120, RDLENGTH 4) followed by
\* its four RDATA bytes.
C10_AnnouncementLayout ==
    (cd_in.kind = "ann" /\ cd_pc \in {"sent", "done"} /\ cd_out.sent # << >>) =>
        /\ Len(cd_out.sent) = 1
        /\ Len(AnnMsg) = Len(AnnExpectedLayout) + 4
        /\ SubSeq(AnnMsg, 1, Len(AnnExpectedLayout)) = AnnExpectedLayout

\* an announcement with an empty TXT list was built
C10_Witness ==
    /\ cd_pc = "sent" /\ cd_in.kind = "ann"
    /\ cd_in.txt_records = << >>
    /\ cd_in.service_type = S_http /\ cd_in.instance_name = S_instance
    /\ Len(cd_out.sent) = 1
    /\ SubSeq(AnnMsg, 1, Len(AnnExpectedLayout)) = AnnExpectedLayout

\* the PTR question for a name, written field by field
ExpectedQuery(qname) ==
    U16BE(0) \o U16BE(0) \o U16BE(1) \o U16BE(0) \o U16BE(0) \o U16BE(0)
        \o WireName(qname) \o U16BE(12) \o U16BE(1)

\* every label of the dotted name fits the one length byte in front of it
LabelsFitLengthByte(name) ==
    \A k \in 1..Len(SplitDots(name, 0)) : Len(SplitDots(name, 0)[k]) <= 255

QuerySent == cd_pc = "sent" /\ cd_in.kind = "query"

C13_EmptyQnameUsesDefault ==
    (QuerySent /\ cd_in.qname = << >> /\ cd_in.sock_mdns >= 0) =>
        /\ cd_out.sent = <<ExpectedQuery(S_elg)>>
        /\ cd_out.ret = Len(ExpectedQuery(S_elg))

\* a dotted quad: four dot-separated decimal numbers 0..255 of 1..3 digits
IsDottedQuad(str) ==
    LET parts == SplitDots(str, 0)
    IN  /\ Len(parts) = 4
        /\ \A k \in 1..4 :
              /\ Len(parts[k]) \in 1..3
              /\ \A i \in 1..Len(parts[k]) : parts[k][i] \in 48..57
              /\ DecValue(parts[k]) <= 255

AnnouncerReturned == cd_pc = "sent" /\ cd_in.kind \in {"ann", "arec"}

\* a required string argument is empty, the socket is negative, or the ipv4
\* string is no dotted quad
AnnouncerArgumentBad ==
    \/ cd_in.sock_mdns < 0
    \/ cd_in.hostname = << >>
    \/ cd_in.ipv4_addr = << >>
    \/ ~IsDottedQuad(cd_in.ipv4_addr)
    \/ (cd_in.kind = "ann" /\ (cd_in.service_type = << >> \/ cd_in.instance_name = << >>))

\* C14: send_mdns_announcement and send_mdns_a_record return -1 and transmit
\* no datagram, complete or partial, whenever a required string argument is
\* empty, the socket is negative, or the ipv4 string does not parse as a
\* dotted quad.
C14_BadArgumentsSendNothing ==
    (AnnouncerReturned /\ AnnouncerArgumentBad) =>
        (cd_out.ret = -1 /\ cd_out.sent = << >>)

\* send_mdns_a_record was refused for an address with an octet above 255,
\* all other arguments being good: the refusal comes after the record head
\* was built
C14_Witness ==
    /\ AnnouncerReturned /\ cd_in.kind = "arec"
    /\ cd_in.sock_mdns = 3 /\ cd_in.hostname = S_hostname
    /\ cd_in.ipv4_addr = <<50, 53, 54, 46, 49, 46, 49, 46, 49>>
    /\ cd_out.ret = -1 /\ cd_out.sent = << >>

\* the four numbers of the dotted quads among the inputs, in written order
QuadOctets(ip) ==
    CASE ip = S_ip_self -> <<192, 168, 1, 50>>
      [] ip = S_ip_dev -> <<192, 168, 1, 77>>
      [] ip = S_ip_other -> <<10, 0, 0, 9>>
      [] ip = S_ip_zero -> <<0, 0, 0, 0>>
      [] ip = S_ip_max -> <<255, 255, 255, 255>>

\* the A record message for a hostname and a dotted quad, field by field
ExpectedARecordMessage(hostname, ip) ==
    U16BE(0) \o U16BE(33792) \o U16BE(0) \o U16BE(1) \o U16BE(0) \o U16BE(0)
        \o WireName(hostname)
        \o U16BE(1) \o U16BE(32769) \o U32BE(120) \o U16BE(4) \o QuadOctets(ip)

\* C15: every message built by send_mdns_a_record has ID 0, flags 0x8400,
\* ANCOUNT 1 and QDCOUNT, NSCOUNT, ARCOUNT 0, followed by exactly one record:
\* the hostname as owner, type 1, class 0x8001, TTL 120, RDLENGTH 4 and the
\* four address octets in the order of the dotted quad, and nothing else.
C15_ARecordLayout ==
    (cd_pc = "sent" /\ cd_in.kind = "arec" /\ cd_out.sent # << >>) =>
        /\ cd_out.sent = <<ExpectedARecordMessage(cd_in.hostname, cd_in.ipv4_addr)>>
        /\ cd_out.ret = Len(cd_out.sent[1])

\* the A record of esp32-elgato-lights.local at 192.168.1.50 was sent
C15_Witness ==
    /\ cd_pc = "sent" /\ cd_in.kind = "arec"
    /\ cd_in.hostname = S_hostname /\ cd_in.ipv4_addr = S_ip_self
    /\ Len(cd_out.sent) = 1
    /\ SubSeq(cd_out.sent[1], Len(cd_out.sent[1]) - 5, Len(cd_out.sent[1]))
          = <<0, 4, 192, 168, 1, 50>>

(***************************************************************************)
(* Spec: the loop of mdns_socket_task_wrapper.  Each turn recvfrom either  *)
(* times out or fills buf with one datagram, mdns_socket_task handles it,  *)
(* and the wrapper sleeps.  The datagrams are composed from question and   *)
(* record templates by a sender that may also cut the tail off.            *)
(***************************************************************************)
MaxQuestions == 2
MaxRecs == 2

\* "_ELG._TCP.Local" and "ESP32-Elgato-Lights.LOCAL" as they appear on the wire
S_elg_mixed == SubSeq(S_elg_upper, 1, Len(S_elg_upper) - 1)
S_hostname_mixed == SubSeq(S_hostname_upper, 1, Len(S_hostname_upper) - 1)

QuestionTemplates ==
    { [name |-> S_hostname, qtype |-> 1, qclass |-> 1],
      [name |-> S_hostname_mixed, qtype |-> 255, qclass |-> 255],
      [name |-> S_hostname, qtype |-> 12, qclass |-> 1],
      [name |-> S_hostname, qtype |-> 1, qclass |-> 32769],
      [name |-> S_other_host, qtype |-> 1, qclass |-> 1],
      [name |-> S_elg, qtype |-> 12, qclass |-> 1] }

\* a record as its sender means it: wname is the owner name as written on
\* the wire, rdlen the RDLENGTH it declares, addr the dotted quad of the four
\* RDATA octets of an address record
Rec(owner, type, clas, rdata, addr) ==
    [owner |-> owner, wname |-> WireName(owner), type |-> type, clas |-> clas,
     rdlen |-> Len(rdata), rdata |-> rdata, addr |-> addr]

R_ptr == Rec(S_elg, 12, 1, WireName(S_dev_instance), << >>)
R_ptr_mixed == Rec(S_elg_mixed, 12, 1, WireName(S_dev_instance), << >>)
R_srv ==
    Rec(S_dev_instance, 33, 32769,
        U16BE(0) \o U16BE(0) \o U16BE(9123) \o WireName(S_dev_host), << >>)
R_a_dev == Rec(S_dev_host, 1, 32769, <<192, 168, 1, 77>>, S_ip_dev)
R_a_other == Rec(S_other_host, 1, 1, <<10, 0, 0, 9>>, S_ip_other)
R_a_badclass == Rec(S_dev_host, 1, 255, <<192, 168, 1, 50>>, S_ip_self)
R_a_long == Rec(S_dev_host, 1, 1, <<192, 168, 1, 50, 0, 0>>, S_ip_self)
R_a_elg == Rec(S_elg, 1, 1, <<192, 168, 1, 77>>, S_ip_dev)
\* a record of the target name whose RDLENGTH declares 1000 bytes where 4 follow
R_overrun == [R_a_elg EXCEPT !.type = 16, !.rdlen = 1000]

RecordTemplates ==
    {R_ptr, R_ptr_mixed, R_srv, R_a_dev, R_a_other, R_a_badclass, R_a_long, R_a_elg,
     R_overrun}

WireQuestion(q) == WireName(q.name) \o U16BE(q.qtype) \o U16BE(q.qclass)

Q_elg == [name |-> S_elg, qtype |-> 12, qclass |-> 1]

\* a compression pointer to offset off
PointerTo(off) == <<192 + off \div 256, off % 256>>

\* the answer of a light as its mDNS stack writes it: the question at offset
\* 12, the PTR owner a pointer to it, the instance name ending in a pointer,
\* the SRV owner a pointer to the instance name, the target ending in a
\* pointer to the label "local", the A owner a pointer to the target
CompressedRecords ==
    LET ptr_at == 12 + Len(WireQuestion(Q_elg))
        instance_at == ptr_at + 2 + 10
        instance == <<9>> \o SubSeq(S_dev_instance, 1, 9) \o PointerTo(12)
        srv_at == instance_at + Len(instance)
        target_at == srv_at + 2 + 10 + 6
        target == <<16>> \o SubSeq(S_dev_host, 1, 16) \o PointerTo(12 + 5 + 5)
    IN  << [R_ptr EXCEPT !.wname = PointerTo(12), !.rdata = instance,
                         !.rdlen = Len(instance)],
           [R_srv EXCEPT !.wname = PointerTo(instance_at),
                         !.rdata = U16BE(0) \o U16BE(0) \o U16BE(9123) \o target,
                         !.rdlen = 6 + Len(target)],
           [R_a_dev EXCEPT !.wname = PointerTo(target_at)] >>

\* longer answers met on the network
SampleResponses ==
    { [qs |-> <<Q_elg>>, rs |-> CompressedRecords],
      [qs |-> << >>, rs |-> <<R_ptr, R_srv, R_a_other>>],
      [qs |-> << >>, rs |-> <<R_a_dev, R_srv, R_ptr>>],
      [qs |-> << >>, rs |-> <<R_ptr_mixed, R_a_badclass, R_a_dev, R_a_other>>],
      [qs |-> << >>, rs |-> <<R_ptr, R_a_dev, R_overrun, R_a_other>>] }

\* bytes the sender drops from the tail of the datagram
TailCuts == {0, 2, 5, 12}

WireRecord(r) ==
    r.wname \o U16BE(r.type) \o U16BE(r.clas) \o U32BE(120)
        \o U16BE(r.rdlen) \o r.rdata

\* the header counts: the first record is an answer, the third an authority,
\* the others are additionals
WireHeader(p) ==
    LET n == Len(p.rs)
        an == IF n >= 1 THEN 1 ELSE 0
        ns == IF n >= 3 THEN 1 ELSE 0
    IN  <<0, 0>> \o U16BE(IF p.qr = 1 THEN 33792 ELSE 0)
            \o U16BE(Len(p.qs)) \o U16BE(an) \o U16BE(ns) \o U16BE(n - an - ns)

WirePacket(p) ==
    WireHeader(p) \o Flatten([k \in 1..Len(p.qs) |-> WireQuestion(p.qs[k])])
                  \o Flatten([k \in 1..Len(p.rs) |-> WireRecord(p.rs[k])])

Datagram(p) ==
    LET w == WirePacket(p) IN [src |-> p, bytes |-> SubSeq(w, 1, Len(w) - p.cut)]

Q_host == [name |-> S_hostname, qtype |-> 1, qclass |-> 1]

\* queries that carry records (known answers) and responses that repeat a
\* question for the hostname
MixedPackets ==
    { [qr |-> 0, qs |-> <<Q_host>>, rs |-> <<R_a_elg>>, cut |-> 0],
      [qr |-> 0, qs |-> <<Q_elg>>, rs |-> <<R_ptr, R_a_dev>>, cut |-> 0],
      [qr |-> 0, qs |-> << >>, rs |-> <<R_a_elg>>, cut |-> 0],
      [qr |-> 1, qs |-> <<Q_host>>, rs |-> << >>, cut |-> 0],
      [qr |-> 1, qs |-> <<Q_host>>, rs |-> <<R_ptr, R_a_dev>>, cut |-> 0] }

Packets ==
    { [qr |-> 0, qs |-> qs, rs |-> << >>, cut |-> c] :
          qs \in SeqsUpTo(QuestionTemplates, MaxQuestions), c \in TailCuts }
    \cup
    { [qr |-> 1, qs |-> qs, rs |-> rs, cut |-> c] :
          qs \in {<< >>, <<Q_elg>>},
          rs \in SeqsUpTo(RecordTemplates, MaxRecs), c \in TailCuts }
    \cup
    { [qr |-> 1, qs |-> r.qs, rs |-> r.rs, cut |-> c] :
          r \in SampleResponses, c \in TailCuts }
    \cup MixedPackets

\* the datagrams recvfrom can return (len > 0)
Datagrams == {d \in {Datagram(p) : p \in Packets} : Len(d.bytes) > 0}

\* the configuration app_main builds, and one that spells the same names in
\* another case and with the trailing dot
Configurations ==
    { [sock_mdns |-> 3, qname |-> S_elg, our_hostname |-> S_hostname,
       our_ip |-> S_ip_self],
      [sock_mdns |-> 3, qname |-> S_elg_upper, our_hostname |-> S_hostname_upper,
       our_ip |-> S_ip_self] }

Range(f) == {f[k] : k \in DOMAIN f}

Init ==
    /\ ParseIdle
    /\ CacheIdle
    /\ ApiIdle
    /\ LibIdle
    /\ BootIdle
    /\ CodecIdle
    /\ TasksIdle
    /\ pc = "recv"
    /\ net_config \in Configurations
    /\ set_ip = {}
    /\ src = NoPacket
    /\ rx = << >>
    /\ effect = [before |-> {}, res |-> NoEffect]

\* recvfrom returns len > 0: one call of mdns_socket_task on that datagram
ReceivePacket ==
    /\ pc = "recv"
    /\ \E d \in Datagrams :
          LET res == MdnsSocketTask(net_config, d.bytes)
          IN  /\ src' = d.src
              /\ rx' = d.bytes
              /\ effect' = [before |-> set_ip, res |-> res]
              /\ set_ip' = set_ip \cup Range(res.ins)
    /\ pc' = "delay"
    /\ UNCHANGED <<net_config, main_frame>>

\* recvfrom returns len <= 0 (receive timeout or error): the call returns
ReceiveTimeout ==
    /\ pc = "recv"
    /\ src' = NoPacket
    /\ rx' = << >>
    /\ effect' = [before |-> set_ip, res |-> NoEffect]
    /\ pc' = "delay"
    /\ UNCHANGED <<net_config, set_ip, main_frame>>

\* vTaskDelay(100 ms) in the wrapper; buf is gone with the call's frame
WrapperDelay ==
    /\ pc = "delay"
    /\ pc' = "recv"
    /\ src' = NoPacket
    /\ rx' = << >>
    /\ effect' = [before |-> set_ip, res |-> NoEffect]
    /\ UNCHANGED <<net_config, set_ip, main_frame>>

Next ==
    \/ ReceivePacket
    \/ ReceiveTimeout
    \/ WrapperDelay

Spec == Init /\ [][Next]_vars

(***************************************************************************)
(* Claims about one call of mdns_socket_task, checked under Spec.  The     *)
(* packet is judged as its sender composed it (src); a question or record  *)
(* is completely present when its last byte was received.                  *)
(***************************************************************************)
QuestionEnd(k) ==
    12 + Len(Flatten([i \in 1..k |-> WireQuestion(src.qs[i])]))

RecordEnd(j) ==
    QuestionEnd(Len(src.qs)) + Len(Flatten([i \in 1..j |-> WireRecord(src.rs[i])]))

\* where record j ends by its own RDLENGTH
DeclaredEnd(j) ==
    RecordEnd(j - 1) + Len(src.rs[j].wname) + 10 + src.rs[j].rdlen

\* record j is truncated: fewer than 10 bytes were received after its owner
\* name, or its RDLENGTH runs past the end of the datagram
Truncated(j) == DeclaredEnd(j) > Len(rx)

QuestionPresent(k) == QuestionEnd(k) <= Len(rx)
\* record j and all records before it were received whole
RecordPresent(j) == \A i \in 1..j : ~Truncated(i)

IsResponse == src # NoPacket /\ src.qr = 1
IsQuery == src # NoPacket /\ src.qr = 0

\* type A, class IN or IN|flush, four bytes of RDATA
IsAddressRecord(r) == r.type = 1 /\ r.clas \in {1, 32769} /\ r.rdlen = 4

SameName(a, b) == NormalizeDnsName(a) = NormalizeDnsName(b)

\* some record at or before record j is owned by the discovery qname
TargetSeenBy(j) == \E k \in 1..j : SameName(src.rs[k].owner, net_config.qname)

Inserted == Range(effect.res.ins)

\* C1: in a response packet an address is inserted only if it is the 4-byte
\* RDATA of a completely received record of type A and class IN or IN|flush
\* and some record at or before it in the same packet is owned by a name that
\* normalizes to the discovery qname; nothing else enters the set, whatever
\* earlier packets held.
C1_InsertOnlyAfterTarget ==
    IsResponse =>
        /\ set_ip = effect.before \cup Inserted
        /\ \A a \in Inserted :
              \E j \in 1..Len(src.rs) :
                  /\ RecordPresent(j)
                  /\ IsAddressRecord(src.rs[j])
                  /\ src.rs[j].addr = a
                  /\ TargetSeenBy(j)

\* after a packet that had put the light's address into the set, a packet
\* with an unrelated address record ahead of an address record owned by the
\* qname: only the second address is inserted
C1_Witness ==
    /\ IsResponse
    /\ effect.before = {S_ip_dev}
    /\ src.rs = <<R_a_other, R_a_elg>> /\ src.cut = 0
    /\ effect.res.ins = <<S_ip_dev>>
    /\ S_ip_other \notin set_ip

\* the packets C2 is about: a PTR record owned by the target service name
\* together with address records
HasTargetPtr ==
    /\ IsResponse
    /\ \E k \in 1..Len(src.rs) :
          /\ RecordPresent(k)
          /\ src.rs[k].type = 12
          /\ SameName(src.rs[k].owner, net_config.qname)
    /\ \E j \in 1..Len(src.rs) : src.rs[j].type = 1

\* the addresses of the address records present at or after the first record
\* owned by the target name, in packet order
ExpectedInserts ==
    LET hit == SelectSeq([j \in 1..Len(src.rs) |-> j],
                         LAMBDA j : /\ RecordPresent(j)
                                    /\ IsAddressRecord(src.rs[j])
                                    /\ TargetSeenBy(j))
    IN  [i \in 1..Len(hit) |-> src.rs[hit[i]].addr]

MatchingQuestions ==
    {k \in 1..Len(src.qs) :
        /\ QuestionPresent(k)
        /\ src.qs[k].qtype \in {1, 255}
        /\ src.qs[k].qclass \in {1, 255}
        /\ SameName(src.qs[k].name, net_config.our_hostname)}

Min(S) == CHOOSE m \in S : \A n \in S : m <= n

\* the A-record announcement of our hostname and address 192.168.1.50
ExpectedReply ==
    <<0, 0>> \o U16BE(33792) \o U16BE(0) \o U16BE(1) \o U16BE(0) \o U16BE(0)
        \o WireName(net_config.our_hostname) \o U16BE(1) \o U16BE(32769)
        \o U32BE(120) \o U16BE(4) \o <<192, 168, 1, 50>>

\* C3: for a query packet with QDCOUNT >= 1, a non-empty hostname and a
\* well-formed address, the call sends exactly one A-record announcement if
\* some completely present question has qtype 1 or 255, qclass 1 or 255 and a
\* name equal to the hostname after normalization, and nothing otherwise; the
\* questions after the first matching one are not examined.
C3_OneReplyPerQuery ==
    (/\ IsQuery /\ Len(src.qs) >= 1 /\ Len(rx) >= 12
     /\ net_config.our_hostname # << >> /\ InetPton(net_config.our_ip).ok) =>
        /\ set_ip = effect.before
        /\ MatchingQuestions # {} =>
              /\ effect.res.sent = <<ExpectedReply>>
              /\ effect.res.examined = Min(MatchingQuestions)
        /\ MatchingQuestions = {} => effect.res.sent = << >>

\* two matching questions in one packet: one reply, the second not examined
C3_Witness ==
    /\ IsQuery
    /\ Len(src.qs) = 2 /\ src.cut = 0
    /\ MatchingQuestions = {1, 2}
    /\ Len(effect.res.sent) = 1
    /\ effect.res.examined = 1

\* the call has returned after a receive that timed out or failed (no
\* datagram) or that returned fewer than 12 bytes
ReturnedWithoutHeader == pc = "delay" /\ (src = NoPacket \/ Len(rx) < 12)

\* C16: an invocation of mdns_socket_task whose receive times out, fails, or
\* returns a datagram shorter than 12 bytes sends nothing and leaves the
\* discovered-address set as it was.
C16_NoHeaderNoEffect ==
    ReturnedWithoutHeader => (effect.res.sent = << >> /\ set_ip = effect.before)

\* a 10-byte datagram was received when the set already held an address
C16_Witness ==
    /\ pc = "delay" /\ src # NoPacket /\ Len(rx) = 10
    /\ effect.before = {S_ip_dev} /\ set_ip = {S_ip_dev}
    /\ effect.res.sent = << >>

\* the first truncated record of the packet
FirstTruncated == Min({j \in 1..Len(src.rs) : Truncated(j)})

\* the addresses of the address records before record t that follow, or are,
\* a record owned by the target name, in packet order
InsertsBefore(t) ==
    LET hit == SelectSeq([j \in 1..(t - 1) |-> j],
                         LAMBDA j : IsAddressRecord(src.rs[j]) /\ TargetSeenBy(j))
    IN  [i \in 1..Len(hit) |-> src.rs[hit[i]].addr]

\* C17: in a response packet the first truncated record (fewer than 10 bytes
\* left after its owner name, or an RDLENGTH that runs past the end of the
\* datagram) ends record processing: the records walked are those before it,
\* no record at or after it causes an insertion, and the addresses inserted
\* by the records before it are in the set.
C17_TruncatedRecordAborts ==
    (IsResponse /\ Len(rx) >= 12 /\ \E j \in 1..Len(src.rs) : Truncated(j)) =>
        /\ Len(effect.res.recs) = FirstTruncated - 1
        /\ effect.res.ins = InsertsBefore(FirstTruncated)
        /\ set_ip = effect.before \cup Range(InsertsBefore(FirstTruncated))

\* PTR, the light's A record, a record whose RDLENGTH overruns the datagram,
\* then an A record received whole: the first address is in the set, the
\* last is not
C17_Witness ==
    /\ IsResponse /\ src.cut = 0
    /\ src.rs = <<R_ptr, R_a_dev, R_overrun, R_a_other>>
    /\ FirstTruncated = 3
    /\ effect.res.ins = <<S_ip_dev>>
    /\ S_ip_dev \in set_ip /\ S_ip_other \notin set_ip

\* the addresses a packet contributes: a function of the packet received and
\* of the configured qname alone
PacketAddresses ==
    IF IsResponse /\ Len(rx) >= 12 THEN Range(ExpectedInserts) ELSE {}

\* C18: over any sequence of invocations with any packets the discovered set
\* only grows: every step leaves it a superset of what it was, an invocation
\* leaves it as the union of its previous value (effect.before, the set as
\* the invocation found it) with the addresses of the packet just received
\* (dotted quads that depend on that packet and the qname only, not on
\* earlier packets), and no other step changes it.
C18_SetOnlyGrows ==
    /\ [](pc = "delay" => set_ip = effect.before \cup PacketAddresses)
    /\ [][ /\ set_ip \subseteq set_ip'
            /\ (pc = "recv" => effect'.before = set_ip)
            /\ (pc # "recv" => set_ip' = set_ip)
            /\ \A a \in set_ip' : IsDottedQuad(a) ]_vars

\* a packet arrived when the set held an address of an earlier packet, and
\* added another
C18_Witness ==
    /\ pc = "delay" /\ IsResponse
    /\ effect.before = {S_ip_dev}
    /\ PacketAddresses = {S_ip_other}
    /\ set_ip = {S_ip_dev, S_ip_other}

(***************************************************************************)
(* SpecTasks: mdns_watcher_task and process_ips on core 0.  Both are       *)
(* pinned to the same core, so the running task is the ready task of the   *)
(* highest priority; a blocked task becomes ready when its delay expires   *)
(* or its I/O completes, whatever the other task is doing, and then        *)
(* preempts a running task of lower priority.  Neither task takes a lock.  *)
(***************************************************************************)
WatcherPriority == 4
ReaderPriority == 7

\* std::string operator<, the order of std::set<std::string>
RECURSIVE StrLess(_, _)
StrLess(a, b) ==
    IF b = << >> THEN FALSE
    ELSE IF a = << >> THEN TRUE
    ELSE IF Head(a) # Head(b) THEN Head(a) < Head(b)
    ELSE StrLess(Tail(a), Tail(b))

\* the elements of a set in the order its iterator yields them
RECURSIVE InOrder(_)
InOrder(S) ==
    IF S = {} THEN << >>
    ELSE LET m == CHOOSE x \in S : \A y \in S \ {x} : StrLess(x, y)
         IN  <<m>> \o InOrder(S \ {m})

\* std::set_difference(discovered.begin(), discovered.end(), known.begin(), ...)
SetDifference(discovered, known) == InOrder(discovered \ known)

\* get_map_keys: the keys of a map as a set
GetMapKeys(input_map) == DOMAIN input_map

\* map[key] = value of std::map: the entry is created or overwritten
MapPut(map, key, value) ==
    [k \in DOMAIN map \cup {key} |-> IF k = key THEN value ELSE map[k]]

\* the serial numbers lights report; "" when the answer has no serialNumber
SerialNumbers == {"", "SN1", "SN2"}

\* what sendHttpGetRequest(host, 9123, "/elgato/accessory-info") can return:
\* error_result (no connection, a status outside 2xx, an empty body), what
\* parseJsonBody made of a body that is no JSON, or the parsed answer; the
\* last two with ip = host
SendHttpGetRequest(host) ==
    {[NoInfo EXCEPT !.error = "Failed request"],
     [NoInfo EXCEPT !.error = "Failed to parse JSON body.", !.ip = host]}
        \cup {[ip |-> host, serialNumber |-> sn, error |-> ""] : sn \in SerialNumbers}

\* if (info.error.empty())
RecordedWhateverTheError(response) == TRUE
Recorded(response) == response.error = ""

\* the datagrams the watcher meets
TaskDatagrams ==
    { Datagram([qr |-> 1, qs |-> r.qs, rs |-> r.rs, cut |-> 0]).bytes :
          r \in SampleResponses }
    \cup { Datagram([qr |-> 0, qs |-> <<Q_elg>>, rs |-> << >>, cut |-> 0]).bytes }

TaskCfg ==
    [sock_mdns |-> 3, qname |-> S_elg, our_hostname |-> S_hostname, our_ip |-> S_ip_self]

\* a task is ready when it is not blocked in recvfrom, vTaskDelay or HTTP I/O
WatcherReady == w_pc \in {"call", "walk", "insert", "rebalance"}
ReaderReady == r_pc \in {"keys", "diff", "loop"}

\* the scheduler runs the ready task of the highest priority
WatcherRuns == WatcherReady /\ ~(ReaderReady /\ ReaderPriority > WatcherPriority)
ReaderRuns == ReaderReady /\ ~(WatcherReady /\ WatcherPriority > ReaderPriority)

Halted == r_pc = "fault"

TasksInit ==
    /\ ParseIdle
    /\ CacheIdle
    /\ ApiIdle
    /\ LibIdle
    /\ BootIdle
    /\ CodecIdle
    /\ MainIdle
    /\ w_pc = "call"
    /\ w_pending = << >>
    /\ r_pc = "keys"
    /\ needed_ids = << >>
    /\ discovered_elgato_device_ips = {}
    /\ device_ip_to_info_map = << >>
    /\ device_serial_to_info_map = << >>
    /\ info = NoInfo

\* the watcher calls mdns_socket_task and blocks in recvfrom
WatcherCall ==
    /\ ~Halted /\ w_pc = "call" /\ WatcherRuns
    /\ w_pc' = "recv"
    /\ UNCHANGED <<w_pending, r_pc, needed_ids, discovered_elgato_device_ips,
                   device_ip_to_info_map, device_serial_to_info_map, info, task_frame>>

\* a datagram arrives: the watcher is ready again and will walk its records
WatcherReceive ==
    /\ ~Halted /\ w_pc = "recv"
    /\ \E buf \in TaskDatagrams : w_pending' = MdnsSocketTask(TaskCfg, buf).ins
    /\ w_pc' = "walk"
    /\ UNCHANGED <<r_pc, needed_ids, discovered_elgato_device_ips,
                   device_ip_to_info_map, device_serial_to_info_map, info, task_frame>>

\* recvfrom times out: mdns_socket_task returns at once
WatcherTimeout ==
    /\ ~Halted /\ w_pc = "recv"
    /\ w_pending' = << >>
    /\ w_pc' = "walk"
    /\ UNCHANGED <<r_pc, needed_ids, discovered_elgato_device_ips,
                   device_ip_to_info_map, device_serial_to_info_map, info, task_frame>>

\* the record loop reaches set_ip.insert and enters it
WatcherEnterInsert ==
    /\ ~Halted /\ w_pc = "walk" /\ WatcherRuns
    /\ w_pending # << >>
    /\ w_pc' = "insert"
    /\ UNCHANGED <<w_pending, r_pc, needed_ids, discovered_elgato_device_ips,
                   device_ip_to_info_map, device_serial_to_info_map, info, task_frame>>

\* insert found no equal key: the new node is linked into the tree, which
\* then has to be rebalanced
WatcherLinkNode ==
    /\ ~Halted /\ w_pc = "insert" /\ WatcherRuns
    /\ Head(w_pending) \notin discovered_elgato_device_ips
    /\ discovered_elgato_device_ips' = discovered_elgato_device_ips \cup {Head(w_pending)}
    /\ w_pc' = "rebalance"
    /\ UNCHANGED <<w_pending, r_pc, needed_ids, device_ip_to_info_map,
                   device_serial_to_info_map, info, task_frame>>

\* set_ip.insert returns, after rebalancing or after it found the key present
WatcherLeaveInsert ==
    /\ ~Halted /\ WatcherRuns
    /\ \/ w_pc = "rebalance"
       \/ w_pc = "insert" /\ Head(w_pending) \in discovered_elgato_device_ips
    /\ w_pending' = Tail(w_pending)
    /\ w_pc' = "walk"
    /\ UNCHANGED <<r_pc, needed_ids, discovered_elgato_device_ips,
                   device_ip_to_info_map, device_serial_to_info_map, info, task_frame>>

\* mdns_socket_task returns and the wrapper calls vTaskDelay(100 ms)
WatcherDelay ==
    /\ ~Halted /\ w_pc = "walk" /\ WatcherRuns
    /\ w_pending = << >>
    /\ w_pc' = "delay"
    /\ UNCHANGED <<w_pending, r_pc, needed_ids, discovered_elgato_device_ips,
                   device_ip_to_info_map, device_serial_to_info_map, info, task_frame>>

\* the delay expires
WatcherWake ==
    /\ ~Halted /\ w_pc = "delay"
    /\ w_pc' = "call"
    /\ UNCHANGED <<w_pending, r_pc, needed_ids, discovered_elgato_device_ips,
                   device_ip_to_info_map, device_serial_to_info_map, info, task_frame>>

\* get_map_keys, then set_difference starts to traverse the shared set
ReaderEnterDifference ==
    /\ r_pc = "keys" /\ ReaderRuns
    /\ r_pc' = "diff"
    /\ UNCHANGED <<w_pc, w_pending, needed_ids, discovered_elgato_device_ips,
                   device_ip_to_info_map, device_serial_to_info_map, info, task_frame>>

\* set_difference returns; the tree it traversed was whole (the watcher, if
\* it is inside insert, has not linked its node yet or found the key present)
ReaderLeaveDifference ==
    /\ r_pc = "diff" /\ ReaderRuns /\ w_pc # "rebalance"
    /\ needed_ids' = SetDifference(discovered_elgato_device_ips,
                                   GetMapKeys(device_ip_to_info_map))
    /\ r_pc' = "loop"
    /\ UNCHANGED <<w_pc, w_pending, discovered_elgato_device_ips,
                   device_ip_to_info_map, device_serial_to_info_map, info, task_frame>>

\* set_difference traversed a tree whose links were being rewritten: it may
\* have missed any of the elements, or met a broken link
ReaderLeaveDifferenceRaced ==
    /\ r_pc = "diff" /\ ReaderRuns /\ w_pc = "rebalance"
    /\ \/ \E seen \in SUBSET discovered_elgato_device_ips :
             /\ needed_ids' = SetDifference(seen, GetMapKeys(device_ip_to_info_map))
             /\ r_pc' = "loop"
       \/ /\ needed_ids' = << >>
          /\ r_pc' = "fault"
    /\ UNCHANGED <<w_pc, w_pending, discovered_elgato_device_ips,
                   device_ip_to_info_map, device_serial_to_info_map, info, task_frame>>

\* the for loop over needed_ids: vTaskDelay(100 ms) before the next request,
\* or vTaskDelay(500 ms) when the vector is exhausted
ReaderNextItem ==
    /\ r_pc = "loop" /\ ReaderRuns
    /\ r_pc' = IF needed_ids = << >> THEN "sleep" ELSE "item_delay"
    /\ UNCHANGED <<w_pc, w_pending, needed_ids, discovered_elgato_device_ips,
                   device_ip_to_info_map, device_serial_to_info_map, info, task_frame>>

\* the delay expires and sendHttpGetRequest waits for the light
ReaderRequest ==
    /\ r_pc = "item_delay"
    /\ r_pc' = "http"
    /\ UNCHANGED <<w_pc, w_pending, needed_ids, discovered_elgato_device_ips,
                   device_ip_to_info_map, device_serial_to_info_map, info, task_frame>>

\* sendHttpGetRequest returns; the device is recorded when info.error is empty
ReaderResponse ==
    /\ r_pc = "http"
    /\ \E response \in SendHttpGetRequest(Head(needed_ids)) :
          /\ info' = response
          /\ IF Recorded(response)
             THEN /\ device_ip_to_info_map' =
                        MapPut(device_ip_to_info_map, Head(needed_ids), response)
                  /\ device_serial_to_info_map' =
                        MapPut(device_serial_to_info_map, response.serialNumber, response)
             ELSE UNCHANGED <<device_ip_to_info_map, device_serial_to_info_map>>
    /\ needed_ids' = Tail(needed_ids)
    /\ r_pc' = "loop"
    /\ UNCHANGED <<w_pc, w_pending, discovered_elgato_device_ips, task_frame>>

\* vTaskDelay(500 ms) expires
ReaderWake ==
    /\ r_pc = "sleep"
    /\ r_pc' = "keys"
    /\ UNCHANGED <<w_pc, w_pending, needed_ids, discovered_elgato_device_ips,
                   device_ip_to_info_map, device_serial_to_info_map, info, task_frame>>

TasksNext ==
    \/ WatcherCall
    \/ WatcherReceive
    \/ WatcherTimeout
    \/ WatcherEnterInsert
    \/ WatcherLinkNode
    \/ WatcherLeaveInsert
    \/ WatcherDelay
    \/ WatcherWake
    \/ ReaderEnterDifference
    \/ ReaderLeaveDifference
    \/ ReaderLeaveDifferenceRaced
    \/ ReaderNextItem
    \/ ReaderRequest
    \/ ReaderResponse
    \/ ReaderWake

SpecTasks == TasksInit /\ [][TasksNext]_vars

\* C4: the discovered-address set is protected by mutual exclusion: in no
\* reachable state is the watcher inside set_ip.insert while process_ips is
\* inside the traversal of set_difference.
C4_InsertExcludesTraversal == ~(w_pc \in {"insert", "rebalance"} /\ r_pc = "diff")

\* the address process_ips is querying or has just queried
Item == Head(needed_ids)

\* C19: after any sequence of reconciliation cycles, discovery inserts and
\* HTTP outcomes: the keys of the address-keyed map are a subset of the
\* discovered set; no address waiting to be queried has an entry; every step
\* keeps the entries there are, unchanged; and a step creates an entry only
\* as the accessory-info request to that address, an address of the
\* discovered set, returns without error.
C19_DirectoryEntries ==
    /\ [](/\ GetMapKeys(device_ip_to_info_map) \subseteq discovered_elgato_device_ips
          /\ \A k \in 1..Len(needed_ids) :
                needed_ids[k] \notin GetMapKeys(device_ip_to_info_map))
    /\ [][ /\ \A a \in DOMAIN device_ip_to_info_map :
                 /\ a \in DOMAIN device_ip_to_info_map'
                 /\ device_ip_to_info_map'[a] = device_ip_to_info_map[a]
            /\ (device_ip_to_info_map' # device_ip_to_info_map) =>
                 /\ r_pc = "http"
                 /\ Item \in discovered_elgato_device_ips
                 /\ info'.error = "" /\ info'.ip = Item
                 /\ DOMAIN device_ip_to_info_map' = DOMAIN device_ip_to_info_map \cup {Item}
                 /\ device_ip_to_info_map'[Item] = info' ]_vars

\* one light has an entry; the request to another discovered address failed
\* and left none
C19_Witness ==
    /\ r_pc = "loop" /\ info.error # ""
    /\ GetMapKeys(device_ip_to_info_map) = {S_ip_dev}
    /\ discovered_elgato_device_ips = {S_ip_dev, S_ip_other}

\* C20: the directory is keyed redundantly: the address-keyed map and the
\* serial-keyed map hold the same device entries: every entry of the
\* address-keyed map is the entry found under its serial number in the
\* serial-keyed map, and every entry of the serial-keyed map is the entry
\* the address-keyed map holds for its ip.
C20_MapsHoldSameEntries ==
    /\ \A a \in DOMAIN device_ip_to_info_map :
          /\ device_ip_to_info_map[a].serialNumber \in DOMAIN device_serial_to_info_map
          /\ device_serial_to_info_map[device_ip_to_info_map[a].serialNumber]
                = device_ip_to_info_map[a]
    /\ \A sn \in DOMAIN device_serial_to_info_map :
          /\ device_serial_to_info_map[sn].ip \in DOMAIN device_ip_to_info_map
          /\ device_ip_to_info_map[device_serial_to_info_map[sn].ip]
                = device_serial_to_info_map[sn]

(***************************************************************************)
(* SpecBoot: app_main of the firmware that runs discovery, announcements   *)
(* and reconciliation as tasks, from the reading of the credentials to the *)
(* main loop, with the WiFi driver's events handled by event_handler on    *)
(* the event task while app_main waits and afterwards.                     *)
(*   boot.link is the station's state as the driver sees it: "off",        *)
(*   "connecting" (esp_wifi_connect called, no result yet), "connected",   *)
(*   or "down" (the handler gave up and calls esp_wifi_connect no more).   *)
(*   The driver is outside the source: once esp_wifi_start has run its     *)
(*   events may come in any order.  boot.last_event is the event handled   *)
(*   last and whether the handler called esp_wifi_connect on it;           *)
(*   boot.reconnects counts the calls made on disconnects since the start  *)
(*   or the last IP_EVENT_STA_GOT_IP.                                      *)
(***************************************************************************)
EXAMPLE_ESP_MAXIMUM_RETRY == 5

\* get_nvs_string_value: "" when the key is not in NVS
NvsValues == {"", "stored"}

\* what can go wrong inside mdns_setup_socket
SetupOutcomes == {"ok", "socket_fails", "bind_fails", "join_fails"}

BootInit ==
    /\ ParseIdle
    /\ CacheIdle
    /\ ApiIdle
    /\ LibIdle
    /\ CodecIdle
    /\ MainIdle
    /\ TasksIdle
    /\ boot_pc = "nvs"
    /\ boot = NoBoot

\* stall_app(): while(1) vTaskDelay(5000); app_main goes no further
StallApp == "stall"

\* get_nvs_string_value twice, then the check of the credentials
ReadCredentials ==
    /\ boot_pc = "nvs"
    /\ \E ssid \in NvsValues, password \in NvsValues :
          /\ boot' = [boot EXCEPT !.wifi_ssid = ssid, !.wifi_password = password]
          /\ boot_pc' = IF ssid = "" \/ password = "" THEN StallApp ELSE "wifi"
    /\ UNCHANGED boot_frame

\* wifi_init_station up to esp_wifi_start: the netif is created, the driver
\* raises WIFI_EVENT_STA_START and the handler calls esp_wifi_connect; the
\* caller then blocks in xEventGroupWaitBits
WifiStart ==
    /\ boot_pc = "wifi"
    /\ boot' = [boot EXCEPT !.s_sta_netif = "sta", !.link = "connecting",
                            !.last_event = [id |-> "WIFI_EVENT_STA_START", connect |-> TRUE]]
    /\ boot_pc' = "wait_bits"
    /\ UNCHANGED boot_frame

\* if (s_retry_num < EXAMPLE_ESP_MAXIMUM_RETRY)
RetryAllowedOnceMore(s_retry_num) == s_retry_num <= EXAMPLE_ESP_MAXIMUM_RETRY
RetryAllowed(s_retry_num) == s_retry_num < EXAMPLE_ESP_MAXIMUM_RETRY

\* event_handler on WIFI_EVENT_STA_DISCONNECTED: a connection attempt failed
\* or the link was lost
EventStaDisconnected ==
    /\ boot.link # "off"
    /\ IF RetryAllowed(boot.s_retry_num)
       THEN boot' = [boot EXCEPT !.s_retry_num = @ + 1, !.link = "connecting",
                        !.reconnects = @ + 1,
                        !.last_event = [id |-> "WIFI_EVENT_STA_DISCONNECTED", connect |-> TRUE]]
       ELSE boot' = [boot EXCEPT !.bits = @ \cup {"WIFI_FAIL_BIT"}, !.link = "down",
                        !.last_event = [id |-> "WIFI_EVENT_STA_DISCONNECTED", connect |-> FALSE]]
    /\ UNCHANGED <<boot_pc, boot_frame>>

\* event_handler on IP_EVENT_STA_GOT_IP
EventStaGotIp ==
    /\ boot.link # "off"
    /\ boot' = [boot EXCEPT !.s_retry_num = 0,
                            !.bits = @ \cup {"WIFI_CONNECTED_BIT"},
                            !.link = "connected",
                            !.reconnects = 0,
                            !.last_event = [id |-> "IP_EVENT_STA_GOT_IP", connect |-> FALSE]]
    /\ UNCHANGED <<boot_pc, boot_frame>>

\* return s_sta_netif, whichever bit ended the wait
WifiInitStationReturn(s_sta_netif, bits) == s_sta_netif

\* get_wifi_ip: the address of the interface, 0.0.0.0 while it has none
GetWifiIp(link) == IF link = "connected" THEN "192.168.1.50" ELSE "0.0.0.0"

\* xEventGroupWaitBits returns once a bit is set; wifi_init_station returns
\* and app_main tests the pointer
WifiWaitReturns ==
    /\ boot_pc = "wait_bits"
    /\ boot.bits # {}
    /\ LET netif == WifiInitStationReturn(boot.s_sta_netif, boot.bits)
       IN  /\ boot' = [boot EXCEPT
                          !.netif = netif,
                          !.outcome = IF "WIFI_CONNECTED_BIT" \in boot.bits
                                      THEN "connected" ELSE "failed",
                          !.wifi_ip = IF netif = "NULL" THEN @ ELSE GetWifiIp(boot.link)]
           /\ boot_pc' = IF netif = "NULL" THEN StallApp ELSE "socket"
    /\ UNCHANGED boot_frame

\* mdns_setup_socket: -1 when socket() or bind() fails; the result of the
\* setsockopt that joins the multicast group is not looked at
MdnsSetupSocket(outcome) == IF outcome \in {"socket_fails", "bind_fails"} THEN -1 ELSE 3

\* net_config->mdns_sock = mdns_setup_socket(); app_main goes on to the tasks
SetupSocket ==
    /\ boot_pc = "socket"
    /\ \E outcome \in SetupOutcomes :
          boot' = [boot EXCEPT !.setup = outcome, !.mdns_sock = MdnsSetupSocket(outcome)]
    /\ boot_pc' = "create_watcher"
    /\ UNCHANGED boot_frame

\* xTaskCreatePinnedToCore(...) != pdPASS leads to stall_app()
TaskCreated(name) == [boot EXCEPT !.tasks = @ \cup {name}]

CreateWatcherTask ==
    /\ boot_pc = "create_watcher"
    /\ \/ boot' = TaskCreated("mdns_watcher_task") /\ boot_pc' = "create_announcements"
       \/ boot' = boot /\ boot_pc' = StallApp
    /\ UNCHANGED boot_frame

CreateAnnouncementTask ==
    /\ boot_pc = "create_announcements"
    /\ \/ boot' = TaskCreated("mdns_announcements") /\ boot_pc' = "create_process_ips"
       \/ boot' = boot /\ boot_pc' = StallApp
    /\ UNCHANGED boot_frame

CreateProcessIpsTask ==
    /\ boot_pc = "create_process_ips"
    /\ \/ boot' = TaskCreated("process_ips") /\ boot_pc' = "http_server"
       \/ boot' = boot /\ boot_pc' = StallApp
    /\ UNCHANGED boot_frame

\* http_server_start returns a handle or NULL
StartHttpServer ==
    /\ boot_pc = "http_server"
    /\ \/ /\ boot' = [boot EXCEPT !.http_server = "handle"]
          /\ boot_pc' = "main_loop"
       \/ /\ boot_pc' = StallApp
          /\ UNCHANGED boot
    /\ UNCHANGED boot_frame

\* the main loop: a log line, then vTaskDelay(1000)
MainLoopLog ==
    /\ boot_pc = "main_loop"
    /\ boot_pc' = "main_delay"
    /\ UNCHANGED <<boot, boot_frame>>

MainLoopWake ==
    /\ boot_pc = "main_delay"
    /\ boot_pc' = "main_loop"
    /\ UNCHANGED <<boot, boot_frame>>

BootNext ==
    \/ ReadCredentials
    \/ WifiStart
    \/ EventStaDisconnected
    \/ EventStaGotIp
    \/ WifiWaitReturns
    \/ SetupSocket
    \/ CreateWatcherTask
    \/ CreateAnnouncementTask
    \/ CreateProcessIpsTask
    \/ StartHttpServer
    \/ MainLoopLog
    \/ MainLoopWake

SpecBoot == BootInit /\ [][BootNext]_vars

(***************************************************************************)
(* Claims about startup, checked under SpecBoot.                           *)
(***************************************************************************)
\* mdns_setup_socket has run and socket(), bind() or the multicast join failed
SetupFailed == boot.setup \in {"socket_fails", "bind_fails", "join_fails"}

\* C21: if mDNS socket setup fails (socket creation, bind or multicast-group
\* join), app_main never creates the watcher task nor the announcement task.
C21_FailedSetupCreatesNoTask ==
    SetupFailed => boot.tasks \cap {"mdns_watcher_task", "mdns_announcements"} = {}

\* C22: wifi_init_station returns only once the connection has succeeded or
\* has failed after the maximum number of retries, it returns NULL when the
\* connection failed, and after a failed connection app_main creates no mDNS
\* task, no reconciliation task and no HTTP server.
C22_FailedWifiStopsStartup ==
    /\ boot.outcome # "none" =>
          \/ "WIFI_CONNECTED_BIT" \in boot.bits
          \/ boot.s_retry_num = EXAMPLE_ESP_MAXIMUM_RETRY
    /\ boot.outcome = "failed" =>
          /\ boot.netif = "NULL"
          /\ boot.tasks = {}
          /\ boot.http_server = "NULL"

(***************************************************************************)
(* setLight of the HTTP client.  The JSON texts are kept as the values     *)
(* they denote.  The light's answer is what sendHttpPutRequest returns:    *)
(* the empty string when the connection, the write or the status failed or *)
(* the body was empty, the body otherwise.  The result lists the requests  *)
(* handed to sendHttpPutRequest.                                           *)
(***************************************************************************)
\* a default-constructed ElgatoLight
NoLight == [on |-> 0, brightness |-> 0, temperature |-> 0, error |-> ""]

\* std::optional<int>
Nullopt == [has_value |-> FALSE, value |-> 0]
Some(v) == [has_value |-> TRUE, value |-> v]

\* the bodies a light may answer with: nothing usable (""), text that is no
\* JSON, an object without lights, and objects whose first light has all,
\* some or none of the three numbers
PutReplies ==
    { [kind |-> "empty"],
      [kind |-> "text"],
      [kind |-> "json", lights |-> << >>],
      [kind |-> "json", lights |-> <<[on |-> 1, brightness |-> 40, temperature |-> 200]>>],
      [kind |-> "json", lights |-> <<[on |-> 0]>>] }

\* cJSON_IsNumber(field) ? field->valueint : the default of the struct
NumberOr(obj, field, default) == IF field \in DOMAIN obj THEN obj[field] ELSE default

ParseElgatoLightsResponse(json_body) ==
    IF json_body.kind # "json"
    THEN [NoLight EXCEPT !.error = "Failed to parse JSON response"]
    ELSE IF json_body.lights = << >>
    THEN [NoLight EXCEPT !.error = "No lights found in response"]
    ELSE LET first_light == json_body.lights[1]
         IN  [on |-> NumberOr(first_light, "on", 0),
              brightness |-> NumberOr(first_light, "brightness", 0),
              temperature |-> NumberOr(first_light, "temperature", 0),
              error |-> ""]

\* if (brightness < 0 || brightness > 100)
BrightnessRejectedAboveOnly(brightness) == brightness > 100
BrightnessRejected(brightness) == brightness < 0 \/ brightness > 100

\* if (temperature.has_value() && (temperature.value() < 143 || temperature.value() > 344))
TemperatureRejected(temperature) ==
    temperature.has_value /\ (temperature.value < 143 \/ temperature.value > 344)

\* the body built with cJSON: temperature only when provided
LightBody(on, brightness, temperature) ==
    IF temperature.has_value
    THEN [numberOfLights |-> 1,
          lights |-> <<[on |-> on, brightness |-> brightness,
                        temperature |-> temperature.value]>>]
    ELSE [numberOfLights |-> 1, lights |-> <<[on |-> on, brightness |-> brightness]>>]

\* sendHttpPutRequest(ip, 9123, "/elgato/lights", json_body) and what follows
PutAndParse(ip, json_body, reply) ==
    LET request == [method |-> "PUT", host |-> ip, port |-> 9123,
                    path |-> "/elgato/lights", body |-> json_body]
    IN  IF reply.kind = "empty"
        THEN [light |-> [NoLight EXCEPT !.error = "Failed request: Update to"],
              requests |-> <<request>>]
        ELSE [light |-> ParseElgatoLightsResponse(reply), requests |-> <<request>>]

\* setLight(ip, brightness, std::optional<int> temperature)
SetLight(ip, brightness, temperature, reply) ==
    IF BrightnessRejected(brightness)
    THEN [light |-> [NoLight EXCEPT !.error = "Brightness must be between 0 and 100"],
          requests |-> << >>]
    ELSE IF TemperatureRejected(temperature)
    THEN [light |-> [NoLight EXCEPT !.error = "Temperature must be between 143 and 344"],
          requests |-> << >>]
    ELSE PutAndParse(ip, LightBody(IF brightness > 0 THEN 1 ELSE 0, brightness, temperature),
                     reply)

\* setLight(ip, brightness, int temperature) of the socket-based client: the
\* temperature is always there and "on" is always 1
SetLightIntTemperature(ip, brightness, temperature, reply) ==
    IF BrightnessRejected(brightness)
    THEN [light |-> [NoLight EXCEPT !.error = "Brightness must be between 0 and 100"],
          requests |-> << >>]
    ELSE IF TemperatureRejected(Some(temperature))
    THEN [light |-> [NoLight EXCEPT !.error = "Temperature must be between 143 and 344"],
          requests |-> << >>]
    ELSE PutAndParse(ip, LightBody(1, brightness, Some(temperature)), reply)

(***************************************************************************)
(* LightGroupCache.  groupMap is a function from group names to lists of   *)
(* serial numbers; std::map iterates over its keys in the order of         *)
(* std::string operator<.                                                  *)
(***************************************************************************)
\* '|', ',' and ';'
Pipe == 124
Comma == 44
Semicolon == 59

\* groupMap[groupName] = serialNumbers
AddGroup(groupMap, groupName, serialNumbers) == MapPut(groupMap, groupName, serialNumbers)

\* the inner loop of serializeGroups: the serials with "," between them
RECURSIVE SerialsJoined(_, _)
SerialsJoined(serials, i) ==
    IF ~(i < Len(serials)) THEN << >>
    ELSE serials[i + 1] \o (IF i < Len(serials) - 1 THEN <<Comma>> ELSE << >>)
            \o SerialsJoined(serials, i + 1)

\* the outer loop: name "|" serials ";" for each group, in key order
RECURSIVE SerializeLoop(_, _)
SerializeLoop(groupMap, names) ==
    IF names = << >> THEN << >>
    ELSE Head(names) \o <<Pipe>> \o SerialsJoined(groupMap[Head(names)], 0)
            \o <<Semicolon>> \o SerializeLoop(groupMap, Tail(names))

SerializeGroups(groupMap) == SerializeLoop(groupMap, InOrder(DOMAIN groupMap))

\* while (std::getline(stream, line, delim)): the lines extracted from the
\* position start on; at the end of the data getline extracts nothing and
\* fails, so a delimiter at the very end opens no further line
RECURSIVE GetLines(_, _, _)
GetLines(data, delim, start) ==
    IF start >= Len(data) THEN << >>
    ELSE LET pos == Find(data, delim, start)
         IN  IF pos = -1 THEN <<SubSeq(data, start + 1, Len(data))>>
             ELSE <<SubSeq(data, start + 1, pos)>> \o GetLines(data, delim, pos + 1)

\* the inner while loop: the non-empty serials between the commas
SerialsOf(serialsStr) == SelectSeq(GetLines(serialsStr, Comma, 0), LAMBDA serial : serial # << >>)

\* groupMap.clear()
ClearSkipped(groupMap) == groupMap
Clear(groupMap) == << >>

\* the body of the outer while loop for the entries k.. of the list
RECURSIVE DeserializeLoop(_, _, _)
DeserializeLoop(entries, k, groupMap) ==
    IF k > Len(entries) THEN groupMap
    ELSE LET groupEntry == entries[k]
             pipePos == Find(groupEntry, Pipe, 0)
         IN  IF groupEntry = << >> \/ pipePos = -1
             THEN DeserializeLoop(entries, k + 1, groupMap)
             ELSE LET groupName == SubSeq(groupEntry, 1, pipePos)
                      serialsStr == SubSeq(groupEntry, pipePos + 2, Len(groupEntry))
                      serials == SerialsOf(serialsStr)
                  IN  DeserializeLoop(entries, k + 1,
                          IF groupName # << >> /\ serials # << >>
                          THEN AddGroup(groupMap, groupName, serials) ELSE groupMap)

DeserializeGroups(groupMap, data) ==
    DeserializeLoop(GetLines(data, Semicolon, 0), 1, Clear(groupMap))

\* loadFromNVS: the stored string is deserialized unless it is empty
LoadFromNVS(groupMap, data) ==
    IF data # << >> THEN DeserializeGroups(groupMap, data) ELSE groupMap

(***************************************************************************)
(* SpecLib: the helpers applied to inputs drawn from bounded sets.         *)
(*   kind "setLight": one call of setLight, of either client.              *)
(*   kind "groups":   groups are added to an empty cache, the cache is     *)
(*                    saved, and after a restart a new cache loads what    *)
(*                    was saved.                                           *)
(*   kind "reload":   a cache that holds groups loads a string found in    *)
(*                    the store.                                           *)
(***************************************************************************)
BrightnessInputs == {-1000, -1, 0, 1, 50, 100, 101, 1000}
TemperatureInputs == {-1, 0, 142, 143, 200, 344, 345, 1000}

SetLightInputs ==
    {[kind |-> "setLight", client |-> "esp_http_client", ip |-> ip, brightness |-> b,
      temperature |-> t, reply |-> r] :
        ip \in {"192.168.1.77", "10.0.0.9"}, b \in BrightnessInputs,
        t \in {Nullopt} \cup {Some(v) : v \in TemperatureInputs}, r \in PutReplies}
    \cup
    {[kind |-> "setLight", client |-> "socket", ip |-> ip, brightness |-> b,
      temperature |-> Some(v), reply |-> r] :
        ip \in {"192.168.1.77"}, b \in BrightnessInputs, v \in TemperatureInputs,
        r \in PutReplies}

\* "k", "of", "k;o", "k|o"
G_k == <<107>>
G_of == <<111, 102>>
G_k_semi == <<107, Semicolon, 111>>
G_k_pipe == <<107, Pipe, 111>>
\* "S1", "S2", "S,1"
SN_1 == <<83, 49>>
SN_2 == <<83, 50>>
SN_comma == <<83, Comma, 49>>

GroupNames == {G_k, G_of, G_k_semi, G_k_pipe, << >>}
SerialLists == {<<SN_1>>, <<SN_1, SN_2>>, <<SN_2, SN_1>>, << >>, <<<< >>>>, <<SN_comma>>}

\* the addGroup calls made before the cache is saved
MaxAdds == 2

GroupInputs ==
    {[kind |-> "groups", adds |-> adds] :
        adds \in SeqsUpTo([groupName : GroupNames, serialNumbers : SerialLists], MaxAdds)}

\* the strings the store may hold: every string of up to MaxDataLen
\* characters over a letter and the three separators, and longer samples:
\* "k|S1,S2;of|S2;", "k|S1;k|S2,S1;" (a name twice), "|S1;k|;of;k|,,S1,;"
MaxDataLen == 5

StoredSamples ==
    { G_k \o <<Pipe>> \o SN_1 \o <<Comma>> \o SN_2 \o <<Semicolon>>
          \o G_of \o <<Pipe>> \o SN_2 \o <<Semicolon>>,
      G_k \o <<Pipe>> \o SN_1 \o <<Semicolon>>
          \o G_k \o <<Pipe>> \o SN_2 \o <<Comma>> \o SN_1 \o <<Semicolon>>,
      <<Pipe>> \o SN_1 \o <<Semicolon>> \o G_k \o <<Pipe, Semicolon>> \o G_of
          \o <<Semicolon>> \o G_k \o <<Pipe, Comma, Comma>> \o SN_1 \o <<Comma, Semicolon>> }

ReloadInputs ==
    {[kind |-> "reload", prior |-> prior, data |-> data] :
        prior \in {<< >>, AddGroup(AddGroup(<< >>, G_of, <<SN_2>>), <<97>>, <<SN_1>>)},
        data \in SeqsUpTo({97, Pipe, Comma, Semicolon}, MaxDataLen) \cup StoredSamples}

LibInit ==
    /\ ParseIdle
    /\ CacheIdle
    /\ ApiIdle
    /\ CodecIdle
    /\ MainIdle
    /\ TasksIdle
    /\ BootIdle
    /\ lib_pc = "in"
    /\ lib_in \in SetLightInputs \cup GroupInputs \cup ReloadInputs
    /\ lib_out = [kind |-> "none"]

CallSetLight ==
    /\ lib_pc = "in" /\ lib_in.kind = "setLight"
    /\ lib_out' = IF lib_in.client = "socket"
                  THEN SetLightIntTemperature(lib_in.ip, lib_in.brightness,
                                              lib_in.temperature.value, lib_in.reply)
                  ELSE SetLight(lib_in.ip, lib_in.brightness, lib_in.temperature,
                                lib_in.reply)
    /\ lib_pc' = "done"
    /\ UNCHANGED <<lib_in, lib_frame>>

\* the addGroup calls in order, on an empty cache
RECURSIVE AddGroups(_, _, _)
AddGroups(groupMap, adds, k) ==
    IF k > Len(adds) THEN groupMap
    ELSE AddGroups(AddGroup(groupMap, adds[k].groupName, adds[k].serialNumbers),
                   adds, k + 1)

BuildGroups ==
    /\ lib_pc = "in" /\ lib_in.kind = "groups"
    /\ lib_out' = [groupMap |-> AddGroups(<< >>, lib_in.adds, 1)]
    /\ lib_pc' = "cached"
    /\ UNCHANGED <<lib_in, lib_frame>>

\* saveToNVS: the serialized groups go to the store (the write is taken to
\* succeed)
SaveToNVS ==
    /\ lib_pc = "cached" /\ lib_in.kind = "groups"
    /\ lib_out' = [groupMap |-> lib_out.groupMap, data |-> SerializeGroups(lib_out.groupMap)]
    /\ lib_pc' = "saved"
    /\ UNCHANGED <<lib_in, lib_frame>>

\* after a restart: init() of a new, empty cache
RestartAndLoad ==
    /\ lib_pc = "saved" /\ lib_in.kind = "groups"
    /\ lib_out' = [groupMap |-> lib_out.groupMap, data |-> lib_out.data,
                   loaded |-> LoadFromNVS(<< >>, lib_out.data)]
    /\ lib_pc' = "done"
    /\ UNCHANGED <<lib_in, lib_frame>>

\* init() of a cache that holds groups, on a string found in the store
Reload ==
    /\ lib_pc = "in" /\ lib_in.kind = "reload"
    /\ lib_out' = [groupMap |-> lib_in.prior, data |-> lib_in.data,
                   loaded |-> LoadFromNVS(lib_in.prior, lib_in.data)]
    /\ lib_pc' = "done"
    /\ UNCHANGED <<lib_in, lib_frame>>

LibNext ==
    \/ CallSetLight
    \/ BuildGroups
    \/ SaveToNVS
    \/ RestartAndLoad
    \/ Reload

SpecLib == LibInit /\ [][LibNext]_vars

(***************************************************************************)
(* Claims about the helpers, checked under SpecLib.                        *)
(***************************************************************************)
SetLightReturned == lib_pc = "done" /\ lib_in.kind = "setLight"

BrightnessInRange == lib_in.brightness \in 0..100
TemperatureInRange ==
    lib_in.temperature.has_value => lib_in.temperature.value \in 143..344

\* C23: setLight called with a brightness outside 0..100, or with a supplied
\* temperature outside 143..344, returns an ElgatoLight with a non-empty
\* error and issues no HTTP request; a request is issued only when both
\* checks pass, and then it is one PUT to /elgato/lights on port 9123 of the
\* address given.
C23_SetLightValidatesFirst ==
    SetLightReturned =>
        /\ ~(BrightnessInRange /\ TemperatureInRange) =>
              (lib_out.light.error # "" /\ lib_out.requests = << >>)
        /\ lib_out.requests # << >> =>
              /\ BrightnessInRange /\ TemperatureInRange
              /\ Len(lib_out.requests) = 1
              /\ lib_out.requests[1].host = lib_in.ip
              /\ lib_out.requests[1].port = 9123
              /\ lib_out.requests[1].path = "/elgato/lights"

\* brightness -1 with a good temperature and a light that would have
\* answered: refused, with no request
C23_Witness ==
    /\ SetLightReturned
    /\ lib_in.brightness = -1 /\ lib_in.temperature = Some(200)
    /\ lib_in.reply.kind = "json" /\ lib_in.reply.lights # << >>
    /\ lib_out.light.error = "Brightness must be between 0 and 100"
    /\ lib_out.requests = << >>

\* the groups of a map, and what the claims ask of them
NamesNonEmpty(groupMap) == \A n \in DOMAIN groupMap : n # << >>
SerialsNonEmpty(groupMap) ==
    \A n \in DOMAIN groupMap :
        /\ groupMap[n] # << >>
        /\ \A i \in 1..Len(groupMap[n]) : groupMap[n][i] # << >>

GroupsReloaded == lib_pc = "done" /\ lib_in.kind = "groups"

\* C24: group serialization round trip: for every group map whose names are
\* non-empty and whose serial lists are non-empty lists of non-empty serial
\* numbers, deserializing what serializeGroups wrote yields the same map (the
\* same names, the same serials in the same order), in whatever order the
\* groups were added.
C24_GroupRoundTrip ==
    (GroupsReloaded /\ NamesNonEmpty(lib_out.groupMap) /\ SerialsNonEmpty(lib_out.groupMap))
        => lib_out.loaded = lib_out.groupMap

\* the pieces of a string between the occurrences of a separator
RECURSIVE PiecesBetween(_, _)
PiecesBetween(str, sep) ==
    IF \A i \in 1..Len(str) : str[i] # sep THEN <<str>>
    ELSE LET i == CHOOSE j \in 1..Len(str) :
                      str[j] = sep /\ \A h \in 1..(j - 1) : str[h] # sep
         IN  <<SubSeq(str, 1, i - 1)>> \o PiecesBetween(SubSeq(str, i + 1, Len(str)), sep)

\* what a well-formed entry "name|serials" of the stored string says
HasPipe(piece) == \E i \in 1..Len(piece) : piece[i] = Pipe
NameIn(piece) == Head(PiecesBetween(piece, Pipe))
SerialsIn(piece) ==
    SelectSeq(PiecesBetween(SubSeq(piece, Len(NameIn(piece)) + 2, Len(piece)), Comma),
              LAMBDA serial : serial # << >>)
WellFormed(piece) == HasPipe(piece) /\ NameIn(piece) # << >> /\ SerialsIn(piece) # << >>

Deserialized == lib_pc = "done" /\ lib_in.kind = "reload" /\ lib_in.data # << >>

\* C25: deserialize drops bad entries: deserializeGroups first clears the map
\* and then keeps exactly the well-formed entries of the stored string (a name
\* that occurs twice keeps its last entry): an entry without '|', with an empty
\* name, or with no non-empty serial is skipped, empty serials inside a list
\* are removed, and no group with an empty name or an empty serial list is in
\* the map afterwards, whatever the map held before.
C25_DeserializeDropsBadEntries ==
    Deserialized =>
        LET pieces == PiecesBetween(lib_in.data, Semicolon)
            kept == {k \in 1..Len(pieces) : WellFormed(pieces[k])}
            last(n) == CHOOSE k \in kept :
                          /\ NameIn(pieces[k]) = n
                          /\ \A h \in kept : NameIn(pieces[h]) = n => h <= k
        IN  /\ DOMAIN lib_out.loaded = {NameIn(pieces[k]) : k \in kept}
            /\ \A n \in DOMAIN lib_out.loaded :
                   lib_out.loaded[n] = SerialsIn(pieces[last(n)])
            /\ NamesNonEmpty(lib_out.loaded)
            /\ SerialsNonEmpty(lib_out.loaded)

\* a map that held two groups loads "|S1;k|;of;k|,,S1,;": only the last entry
\* is well formed, and the groups held before are gone
C25_Witness ==
    /\ Deserialized
    /\ lib_out.groupMap # << >>
    /\ \E k \in 1..Len(PiecesBetween(lib_in.data, Semicolon)) :
           ~WellFormed(PiecesBetween(lib_in.data, Semicolon)[k])
    /\ lib_out.loaded = AddGroup(<< >>, G_k, <<SN_1>>)

(***************************************************************************)
(* SpecApi: the HTTP API server of http_server.cpp.  http_server_start     *)
(* starts esp_http_server and registers the handlers; then requests        *)
(* arrive one at a time, while process_ips fills the device directory and  *)
(* update_device_cache_task refreshes the cached device list.  Group names *)
(* and serial numbers are strings of character codes, as in the cache.     *)
(***************************************************************************)
\* "x", a group nobody created; the serial no light reports is "S,1"
G_x == <<120>>

\* JSON values as cJSON types them
Str(valuestring) == [type |-> "string", valuestring |-> valuestring]
Num(valueint) == [type |-> "number", valueint |-> valueint]
Arr(items) == [type |-> "array", items |-> items]
Obj(fields) == [type |-> "object", fields |-> fields]

\* cJSON_IsString / IsArray / IsObject / IsNumber of cJSON_GetObjectItemCaseSensitive
IsType(object, field, type) == field \in DOMAIN object /\ object[field].type = type

\* what httpd_req_recv and cJSON_Parse make of a request body
NoBody == [kind |-> "none"]
NotJson == [kind |-> "text"]
Json(root) == [kind |-> "json", root |-> root]

LightJson(brightness, temperature) ==
    Obj([brightness |-> Num(brightness), temperature |-> Num(temperature)])

ControlBodies ==
    { NoBody, NotJson,
      Json([group |-> Str(G_k), light |-> LightJson(50, 200)]),
      Json([group |-> Str(G_of), light |-> LightJson(50, 200)]),
      Json([group |-> Str(G_x), light |-> LightJson(50, 200)]),
      Json([group |-> Str(G_k), light |-> LightJson(150, 200)]),
      Json([group |-> Str(G_k)]),
      Json([group |-> Str(G_k),
            light |-> Obj([brightness |-> Str(<<53, 48>>), temperature |-> Num(200)])]) }

SetGroupBodies ==
    { NoBody, NotJson,
      Json([groupName |-> Str(G_k), serialNumbers |-> Arr(<<Str(SN_1)>>)]),
      Json([groupName |-> Str(G_k), serialNumbers |-> Arr(<<Str(SN_comma), Str(SN_1)>>)]),
      Json([groupName |-> Str(G_of), serialNumbers |-> Arr(<<Str(SN_1), Str(SN_2)>>)]),
      Json([groupName |-> Str(G_of), serialNumbers |-> Arr(<<Num(1), Str(SN_2)>>)]),
      Json([groupName |-> Str(G_k), serialNumbers |-> Arr(<< >>)]),
      Json([groupName |-> Str(G_k), serialNumbers |-> Arr(<<Num(1)>>)]),
      Json([groupName |-> Str(G_k), serialNumbers |-> Str(SN_1)]),
      Json([serialNumbers |-> Arr(<<Str(SN_1)>>)]) }

\* the eight routes of the contract
ContractRoutes ==
    { <<"GET", "/lights/all">>, <<"GET", "/lights/group">>, <<"PUT", "/lights/group">>,
      <<"PUT", "/lights">>, <<"GET", "/elgato/lights">>, <<"PUT", "/elgato/lights">>,
      <<"GET", "/elgato/accessory-info">>, <<"PUT", "/elgato/accessory-info">> }

ApiUris ==
    {"/lights/all", "/lights/group", "/lights", "/elgato/lights",
     "/elgato/accessory-info", "/"}

BodiesOf(method, uri) ==
    IF method = "PUT" /\ uri = "/lights" THEN ControlBodies
    ELSE IF method = "PUT" /\ uri = "/lights/group" THEN SetGroupBodies
    ELSE {NoBody}

ApiRequests ==
    UNION {{[method |-> method, uri |-> uri, body |-> body] : body \in BodiesOf(method, uri)} :
              method \in {"GET", "PUT"}, uri \in ApiUris}

\* the lights process_ips can find, by serial number
ApiDevices ==
    (SN_1 :> [serialNumber |-> SN_1, ip |-> "192.168.1.50", displayName |-> "Key Light"])
    @@ (SN_2 :> [serialNumber |-> SN_2, ip |-> "192.168.1.51", displayName |-> "Ring Light"])

\* what a light answers to the PUT of setLight
ApiReplies ==
    { [kind |-> "empty"],
      [kind |-> "json", lights |-> <<[on |-> 1, brightness |-> 50, temperature |-> 200]>>] }

ApiInit ==
    /\ ParseIdle
    /\ CacheIdle
    /\ CodecIdle
    /\ MainIdle
    /\ TasksIdle
    /\ BootIdle
    /\ LibIdle
    /\ api_pc = "start"
    /\ api = NoApi

\* registerRoutes: the httpd_register_uri_handler calls
RegisterRoutes ==
    { [uri |-> "/lights/all", method |-> "GET", handler |-> "handleGetAllLights"],
      [uri |-> "/lights/group", method |-> "GET", handler |-> "handleGetLightGroups"],
      [uri |-> "/lights", method |-> "PUT", handler |-> "handleControlLightGroup"],
      [uri |-> "/lights/group", method |-> "PUT", handler |-> "handleSetLightGroup"] }

\* http_server_start: httpd_start may fail, and then nothing is registered
\* and NULL is returned; the group cache has loaded what the store held
HttpServerStart ==
    /\ api_pc = "start"
    /\ \E err \in {"ESP_OK", "ESP_FAIL"} :
          IF err # "ESP_OK"
          THEN /\ api_pc' = "failed"
               /\ api' = api
          ELSE /\ api_pc' = "listening"
               /\ api' = [api EXCEPT !.server = "httpd", !.uri_handlers = RegisterRoutes]
    /\ UNCHANGED api_frame

\* process_ips adds a light it has fetched to the directory
DirectoryAdd ==
    /\ api_pc = "listening"
    /\ \E serial \in DOMAIN ApiDevices :
          /\ serial \notin DOMAIN api.device_serial_map
          /\ api' = [api EXCEPT !.device_serial_map = MapPut(@, serial, ApiDevices[serial])]
    /\ UNCHANGED <<api_pc, api_frame>>

\* update_device_cache_task: the cached device list follows the directory
UpdateDeviceCache ==
    /\ api_pc = "listening"
    /\ api.cached_devices_json # DOMAIN api.device_serial_map
    /\ api' = [api EXCEPT !.cached_devices_json = DOMAIN api.device_serial_map]
    /\ UNCHANGED <<api_pc, api_frame>>

\* esp_http_server looks the request up among the registered handlers
FindUriHandler(uri_handlers, request) ==
    LET found == {h \in uri_handlers : h.uri = request.uri /\ h.method = request.method}
    IN  IF found = {} THEN "none" ELSE (CHOOSE h \in found : TRUE).handler

\* httpd_resp_set_status, httpd_resp_send of {"error": ...}
ErrorResponse(handler, status, error) ==
    [handler |-> handler, status |-> status, body |-> [error |-> error]]

\* the exchange as the actions record it: the request, and the groups and
\* the directory as they were when it arrived
Exchange(request, response) ==
    [api EXCEPT !.request = request,
                !.at_request = [groupMap |-> api.groupMap,
                                directory |-> DOMAIN api.device_serial_map,
                                nvs |-> api.nvs],
                !.response = response,
                !.puts = << >>,
                !.steps = <<[op |-> "send", status |-> response.status]>>]

\* a request no registered handler matches: esp_http_server answers itself
NoHandler ==
    /\ api_pc = "listening"
    /\ \E request \in ApiRequests :
          /\ FindUriHandler(api.uri_handlers, request) = "none"
          /\ api' = Exchange(request,
                        [handler |-> "none",
                         status |-> IF \E h \in api.uri_handlers : h.uri = request.uri
                                    THEN 405 ELSE 404,
                         body |-> [text |-> "esp_http_server"]])
    /\ UNCHANGED <<api_pc, api_frame>>

\* handleGetAllLights: the cached device list, or 503 when the mutex is not
\* obtained in time
HandleGetAllLights ==
    /\ api_pc = "listening"
    /\ \E request \in ApiRequests, taken \in BOOLEAN :
          /\ FindUriHandler(api.uri_handlers, request) = "handleGetAllLights"
          /\ api' = Exchange(request,
                        IF taken
                        THEN [handler |-> "handleGetAllLights", status |-> 200,
                              body |-> [devices |-> api.cached_devices_json]]
                        ELSE ErrorResponse("handleGetAllLights", 503, "Cache busy"))
    /\ UNCHANGED <<api_pc, api_frame>>

\* handleGetLightGroups
HandleGetLightGroups ==
    /\ api_pc = "listening"
    /\ \E request \in ApiRequests :
          /\ FindUriHandler(api.uri_handlers, request) = "handleGetLightGroups"
          /\ api' = Exchange(request,
                        [handler |-> "handleGetLightGroups", status |-> 200,
                         body |-> [groups |-> api.groupMap,
                                   totalGroups |-> Cardinality(DOMAIN api.groupMap)]])
    /\ UNCHANGED <<api_pc, api_frame>>

\* the loop over the array: the items that are strings
StringItems(items) ==
    LET strings == SelectSeq(items, LAMBDA item : item.type = "string")
    IN  [i \in 1..Len(strings) |-> strings[i].valuestring]

\* handleSetLightGroup, up to the response: the response and the group map
SetLightGroup(groupMap, body) ==
    LET handler == "handleSetLightGroup"
        refused(error) == [response |-> ErrorResponse(handler, 400, error),
                           groupMap |-> groupMap, added |-> FALSE]
    IN  IF body.kind = "none" THEN refused("Failed to read request body")
        ELSE IF body.kind # "json" THEN refused("Invalid JSON")
        ELSE IF ~IsType(body.root, "groupName", "string")
                  \/ ~IsType(body.root, "serialNumbers", "array")
        THEN refused("Missing or invalid groupName or serialNumbers")
        ELSE LET serials == StringItems(body.root.serialNumbers.items)
                 savedGroupName == body.root.groupName.valuestring
             IN  IF serials = << >> THEN refused("serialNumbers array is empty")
                 ELSE [response |-> [handler |-> handler, status |-> 200,
                                     body |-> [success |-> TRUE,
                                               groupName |-> savedGroupName,
                                               deviceCount |-> Len(serials)]],
                       groupMap |-> AddGroup(groupMap, savedGroupName, serials),
                       added |-> TRUE]

\* what handleSetLightGroup does to the cache, the client and the store, in
\* the order of its statements: addGroup(..., false), httpd_resp_send,
\* saveToNVS; a refused request is answered and nothing else
SetLightGroupStepsSaveFirst(done, success) ==
    IF done.added
    THEN <<[op |-> "addGroup"], [op |-> "saveToNVS", success |-> success],
           [op |-> "send", status |-> done.response.status]>>
    ELSE <<[op |-> "send", status |-> done.response.status]>>
SetLightGroupStepsSaveAlways(done, success) ==
    (IF done.added THEN <<[op |-> "addGroup"]>> ELSE << >>)
        \o <<[op |-> "send", status |-> done.response.status],
              [op |-> "saveToNVS", success |-> success]>>
SetLightGroupSteps(done, success) ==
    IF done.added
    THEN <<[op |-> "addGroup"], [op |-> "send", status |-> done.response.status],
           [op |-> "saveToNVS", success |-> success]>>
    ELSE <<[op |-> "send", status |-> done.response.status]>>

\* saveToNVS was called and set_nvs_string_value succeeded
Stored(steps) ==
    \E k \in 1..Len(steps) : steps[k].op = "saveToNVS" /\ steps[k].success

\* handleSetLightGroup: after the response the groups are saved;
\* set_nvs_string_value may fail, and then the store keeps what it held
HandleSetLightGroup ==
    /\ api_pc = "listening"
    /\ \E request \in ApiRequests, success \in BOOLEAN :
          /\ FindUriHandler(api.uri_handlers, request) = "handleSetLightGroup"
          /\ LET done == SetLightGroup(api.groupMap, request.body)
                 steps == SetLightGroupSteps(done, success)
             IN  api' = [Exchange(request, done.response) EXCEPT
                             !.groupMap = done.groupMap,
                             !.nvs = IF Stored(steps)
                                     THEN SerializeGroups(done.groupMap) ELSE api.nvs,
                             !.steps = steps]
    /\ UNCHANGED <<api_pc, api_frame>>

\* getGroup: the serials of the group, or an empty vector
GetGroup(groupMap, groupName) ==
    IF groupName \in DOMAIN groupMap THEN groupMap[groupName] ELSE << >>

\* the loop of handleControlLightGroup over the serials k.. of the group;
\* replies[serial] is what that light answers
RECURSIVE ControlLights(_, _, _, _, _, _)
ControlLights(serialNumbers, k, device_serial_map, brightness, temperature, replies) ==
    IF k > Len(serialNumbers)
    THEN [results |-> << >>, successCount |-> 0, failCount |-> 0, puts |-> << >>]
    ELSE LET serial == serialNumbers[k]
             rest == ControlLights(serialNumbers, k + 1, device_serial_map,
                                   brightness, temperature, replies)
         IN  IF serial \notin DOMAIN device_serial_map
             THEN [results |-> <<[serial |-> serial, success |-> FALSE,
                                  error |-> "Device not found"]>> \o rest.results,
                   successCount |-> rest.successCount,
                   failCount |-> rest.failCount + 1,
                   puts |-> rest.puts]
             ELSE LET deviceInfo == device_serial_map[serial]
                      set == SetLight(deviceInfo.ip, brightness, Some(temperature),
                                      replies[serial])
                  IN  IF set.light.error = ""
                      THEN [results |-> <<[serial |-> serial,
                                           displayName |-> deviceInfo.displayName,
                                           success |-> TRUE,
                                           brightness |-> set.light.brightness,
                                           temperature |-> set.light.temperature]>>
                                        \o rest.results,
                            successCount |-> rest.successCount + 1,
                            failCount |-> rest.failCount,
                            puts |-> set.requests \o rest.puts]
                      ELSE [results |-> <<[serial |-> serial,
                                           displayName |-> deviceInfo.displayName,
                                           success |-> FALSE,
                                           error |-> set.light.error]>> \o rest.results,
                            successCount |-> rest.successCount,
                            failCount |-> rest.failCount + 1,
                            puts |-> set.requests \o rest.puts]

\* handleControlLightGroup: the response and the PUTs sent to the lights
ControlLightGroup(groupMap, device_serial_map, body, replies) ==
    LET handler == "handleControlLightGroup"
        refused(status, error) == [response |-> ErrorResponse(handler, status, error),
                                   puts |-> << >>]
    IN  IF body.kind = "none" THEN refused(400, "Failed to read request body")
        ELSE IF body.kind # "json" THEN refused(400, "Invalid JSON")
        ELSE IF ~IsType(body.root, "group", "string") \/ ~IsType(body.root, "light", "object")
        THEN refused(400, "Missing or invalid 'group' or 'light' fields")
        ELSE IF ~IsType(body.root.light.fields, "brightness", "number")
                  \/ ~IsType(body.root.light.fields, "temperature", "number")
        THEN refused(400, "Missing or invalid brightness or temperature in light object")
        ELSE LET groupName == body.root.group.valuestring
                 brightness == body.root.light.fields.brightness.valueint
                 temperature == body.root.light.fields.temperature.valueint
                 serialNumbers == GetGroup(groupMap, groupName)
             IN  IF serialNumbers = << >> THEN refused(404, "Group not found or empty")
                 ELSE LET done == ControlLights(serialNumbers, 1, device_serial_map,
                                                brightness, temperature, replies)
                      IN  [response |-> [handler |-> handler, status |-> 200,
                                         body |-> [groupName |-> groupName,
                                                   totalDevices |-> Len(serialNumbers),
                                                   successCount |-> done.successCount,
                                                   failCount |-> done.failCount,
                                                   results |-> done.results]],
                           puts |-> done.puts]

HandleControlLightGroup ==
    /\ api_pc = "listening"
    /\ \E request \in ApiRequests, replies \in [DOMAIN ApiDevices -> ApiReplies] :
          /\ FindUriHandler(api.uri_handlers, request) = "handleControlLightGroup"
          /\ LET done == ControlLightGroup(api.groupMap, api.device_serial_map,
                                           request.body, replies)
             IN  api' = [Exchange(request, done.response) EXCEPT !.puts = done.puts]
    /\ UNCHANGED <<api_pc, api_frame>>

ApiNext ==
    \/ HttpServerStart
    \/ DirectoryAdd
    \/ UpdateDeviceCache
    \/ NoHandler
    \/ HandleGetAllLights
    \/ HandleGetLightGroups
    \/ HandleSetLightGroup
    \/ HandleControlLightGroup

SpecApi == ApiInit /\ [][ApiNext]_vars

\* a PUT /lights request that names a group and gives both numbers
ControlRequested ==
    /\ api.request.method = "PUT" /\ api.request.uri = "/lights"
    /\ api.request.body.kind = "json"
    /\ IsType(api.request.body.root, "group", "string")
    /\ IsType(api.request.body.root, "light", "object")
    /\ IsType(api.request.body.root.light.fields, "brightness", "number")
    /\ IsType(api.request.body.root.light.fields, "temperature", "number")

NamedGroup == api.request.body.root.group.valuestring
GroupAbsent == NamedGroup \notin DOMAIN api.at_request.groupMap
SerialMissing ==
    /\ ~GroupAbsent
    /\ \E i \in 1..Len(api.at_request.groupMap[NamedGroup]) :
           api.at_request.groupMap[NamedGroup][i] \notin api.at_request.directory

\* an error field at the top of the body or in one of its results
HasErrorField(body) ==
    \/ "error" \in DOMAIN body
    \/ /\ "results" \in DOMAIN body
       /\ \E i \in 1..Len(body.results) : "error" \in DOMAIN body.results[i]

\* C26: every PUT /lights request that depends on a missing entry, whether
\* the named group is absent from the group cache or a serial of the group is
\* absent from the device directory, is answered with a 4xx/5xx status and a
\* JSON body that has an error field.
C26_MissingEntryIsAnError ==
    (ControlRequested /\ (GroupAbsent \/ SerialMissing))
        => /\ api.response.status \in 400..599
           /\ HasErrorField(api.response.body)

\* C27: the server dispatches every one of the eight routes of its contract
\* to a handler: a request for any of them is never left without a registered
\* handler.
C27_EveryContractRouteHasHandler ==
    (api_pc = "listening" /\ api.request.method # "none"
        /\ <<api.request.method, api.request.uri>> \in ContractRoutes)
        => api.response.handler # "none"

(***************************************************************************)
(* Claims about the spelling of names, checked under Spec.                 *)
(***************************************************************************)
\* a name in upper case, and in lower case
UpperCase(name) == [k \in 1..Len(name) |-> IF name[k] \in 97..122 THEN name[k] - 32 ELSE name[k]]
LowerCase(name) == [k \in 1..Len(name) |-> IF name[k] \in 65..90 THEN name[k] + 32 ELSE name[k]]

\* the spellings of a configured name: either case, with and without the
\* root dot
Spellings(name) ==
    LET bare == IF name # << >> /\ name[Len(name)] = 46
                THEN SubSeq(name, 1, Len(name) - 1) ELSE name
    IN  {LowerCase(bare), UpperCase(bare), LowerCase(bare) \o <<46>>, UpperCase(bare) \o <<46>>}

ConfigSpellings(cfg) ==
    {[cfg EXCEPT !.qname = qname, !.our_hostname = our_hostname] :
        qname \in Spellings(cfg.qname), our_hostname \in Spellings(cfg.our_hostname)}

\* the packet with every question name and every owner name respelled; an
\* owner written as a pointer follows the name it points to
Respelled(p, Case(_)) ==
    [p EXCEPT
        !.qs = [k \in 1..Len(p.qs) |-> [p.qs[k] EXCEPT !.name = Case(@)]],
        !.rs = [k \in 1..Len(p.rs) |->
                   [p.rs[k] EXCEPT
                       !.owner = Case(@),
                       !.wname = IF @ = WireName(p.rs[k].owner)
                                 THEN WireName(Case(p.rs[k].owner)) ELSE @]]]

\* a reply with the letters of its owner name (between the 12 bytes of the
\* header and the 14 bytes of type, class, TTL, RDLENGTH and address) in
\* lower case: replies that are equal as DNS messages have the same
LowerOwner(msg) ==
    [k \in 1..Len(msg) |->
        IF k > 12 /\ k <= Len(msg) - 14 /\ msg[k] \in 65..90 THEN msg[k] + 32 ELSE msg[k]]

\* what a call decided: the replies sent and the addresses inserted, in order
Decision(res) ==
    [sent |-> [k \in 1..Len(res.sent) |-> LowerOwner(res.sent[k])], ins |-> res.ins]

PacketHandled == pc = "delay" /\ src # NoPacket

\* C28: name matching is case-insensitive and ignores a trailing root dot:
\* on the packet received, on the packet with its names in upper case and on
\* the packet with its names in lower case, and with the configured hostname
\* and discovery name spelled in either case, with or without the root dot,
\* mdns_socket_task decides the same: the same reply or none, and the same
\* addresses inserted.
C28_SpellingDoesNotMatter ==
    PacketHandled =>
        /\ \A cfg \in ConfigSpellings(net_config) :
               Decision(MdnsSocketTask(cfg, rx)) = Decision(effect.res)
        /\ Decision(MdnsSocketTask(net_config, Datagram(Respelled(src, UpperCase)).bytes))
               = Decision(effect.res)
        /\ Decision(MdnsSocketTask(net_config, Datagram(Respelled(src, LowerCase)).bytes))
               = Decision(effect.res)

\* configured with "_ELG._TCP.Local.", the task met a record of
\* "_ELG._TCP.Local" and inserted the address that followed (C28_Witness);
\* configured in lower case, it answered a question for
\* "ESP32-Elgato-Lights.LOCAL" (C28_WitnessReply)
C28_Witness ==
    /\ PacketHandled
    /\ net_config.qname = S_elg_upper
    /\ Len(src.rs) >= 2
    /\ src.rs[1] = R_ptr_mixed
    /\ effect.res.ins = <<S_ip_dev>>

C28_WitnessReply ==
    /\ PacketHandled
    /\ net_config.our_hostname = S_hostname
    /\ Len(src.qs) >= 1
    /\ src.qs[1].name = S_hostname_mixed
    /\ Len(effect.res.sent) = 1

(***************************************************************************)
(* Claims about the length bytes of encoded names, checked under           *)
(* SpecCodec on the names push_name encoded alone and on the names of the  *)
(* queries sent.                                                           *)
(***************************************************************************)
NameWritten ==
    \/ cd_in.kind = "name" /\ cd_pc \in {"encoded", "done"}
    \/ QuerySent /\ cd_in.qname # << >> /\ cd_out.sent # << >>

\* the name as given, its labels, and the bytes the encoder wrote for it
GivenName == IF cd_in.kind = "name" THEN cd_in.name ELSE cd_in.qname
GivenLabels == NonEmptyParts(SplitDots(GivenName, 0))
WrittenName ==
    IF cd_in.kind = "name" THEN cd_out.bytes
    ELSE SubSeq(cd_out.sent[1], 13, Len(cd_out.sent[1]) - 4)

\* where the length byte of label k stands among the bytes written
RECURSIVE LengthByteAt(_, _)
LengthByteAt(labels, k) ==
    IF k = 1 THEN 1 ELSE LengthByteAt(labels, k - 1) + 1 + Len(labels[k - 1])

\* C29: no compression is ever emitted: for every input name, every
\* label-length byte the name encoder writes equals the true byte length of
\* its label and has its two top bits clear (so the decoder never takes it for
\* a compression pointer), the bytes after it are exactly that many label
\* bytes, and a zero byte ends the name.
C29_LengthBytesAreLengths ==
    NameWritten =>
        /\ \A k \in 1..Len(GivenLabels) :
               LET at == LengthByteAt(GivenLabels, k)
               IN  /\ WrittenName[at] = Len(GivenLabels[k])
                   /\ WrittenName[at] < 64
                   /\ SubSeq(WrittenName, at + 1, at + Len(GivenLabels[k])) = GivenLabels[k]
        /\ Len(WrittenName) = LengthByteAt(GivenLabels, Len(GivenLabels) + 1)
        /\ WrittenName[Len(WrittenName)] = 0

(***************************************************************************)
(* SpecTasksFair: the two tasks under a fair scheduler.  A delay expires,  *)
(* recvfrom returns (a datagram or its timeout) and the HTTP client        *)
(* returns (an answer or its timeout), so every step of process_ips is     *)
(* taken once it stays enabled; the watcher, which runs only while         *)
(* process_ips is blocked, takes a step that is enabled again and again;   *)
(* and a light that is asked again and again answers at last.              *)
(***************************************************************************)
\* the steps of the watcher that need the processor or a timer only; no
\* datagram has to arrive
WatcherStep ==
    \/ WatcherCall
    \/ WatcherTimeout
    \/ WatcherEnterInsert \/ WatcherLinkNode \/ WatcherLeaveInsert
    \/ WatcherDelay
    \/ WatcherWake

\* sendHttpGetRequest returns an answer that process_ips records
ReaderResponseRecorded == ReaderResponse /\ Recorded(info')

\* process_ips is at one place at a time, so one of these is enabled
ReaderStep ==
    \/ ReaderEnterDifference
    \/ ReaderLeaveDifference \/ ReaderLeaveDifferenceRaced
    \/ ReaderNextItem
    \/ ReaderRequest
    \/ ReaderResponse
    \/ ReaderWake

TasksFairness ==
    /\ SF_vars(WatcherStep)
    /\ WF_vars(ReaderStep)
    /\ SF_vars(ReaderResponseRecorded)

SpecTasksFair == SpecTasks /\ TasksFairness

\* the addresses the datagrams of the watcher can insert
TaskAddresses == {S_ip_dev, S_ip_other}

Discovered(ip) == ip \in discovered_elgato_device_ips
HasEntry(ip) == ip \in DOMAIN device_ip_to_info_map
Requested(ip) == r_pc = "http" /\ Head(needed_ids) = ip

SetGroupAnswered == api.response.handler = "handleSetLightGroup"
SetGroupSucceeded == SetGroupAnswered /\ api.response.status = 200

\* the group the request names and its serials, for a request that has both
RequestedGroupName == api.request.body.root.groupName.valuestring
RequestedSerials ==
    LET items == api.request.body.root.serialNumbers.items
        strings == SelectSeq(items, LAMBDA item : item.type = "string")
    IN  [i \in 1..Len(strings) |-> strings[i].valuestring]

\* C31: a successful PUT /lights/group writes the group to the in-memory
\* cache, then sends the success response, and only then persists the cache:
\* when the response is sent the group is what GET /lights/group shows, and
\* the response is the same whether the NVS write succeeds or fails.
C31_CacheThenResponseThenStore ==
    SetGroupSucceeded =>
        /\ Len(api.steps) = 3
        /\ api.steps[1].op = "addGroup"
        /\ api.steps[2] = [op |-> "send", status |-> 200]
        /\ api.steps[3].op = "saveToNVS"
        /\ RequestedGroupName \in DOMAIN api.groupMap
        /\ api.groupMap[RequestedGroupName] = RequestedSerials
        /\ api.response.body = [success |-> TRUE, groupName |-> RequestedGroupName,
                                deviceCount |-> Len(RequestedSerials)]
        /\ api.nvs = IF api.steps[3].success THEN SerializeGroups(api.groupMap)
                     ELSE api.at_request.nvs

\* the group "of" was answered with success although the write to the store
\* failed: the cache has it, the store has not
C31_Witness ==
    /\ SetGroupSucceeded
    /\ RequestedGroupName = G_of
    /\ api.groupMap[G_of] = <<SN_1, SN_2>>
    /\ ~api.steps[3].success
    /\ api.nvs = << >>


(***************************************************************************)
(* SpecCache: the HTTP server task, update_device_cache_task and           *)
(* process_ips around the data they share: server_cache (the cached device *)
(* JSON and its mutex) and the two device maps.  A task that is not        *)
(* blocked may take the next step; a blocked task goes on when its delay,  *)
(* its I/O or its wait for the mutex ends.  The three tasks are pinned to  *)
(* core 0 with priorities 1, 2 and 7; the schedules those allow are among  *)
(* the interleavings of this specification.                                *)
(*   cache_pc[task] is the statement the task is at; cache.torn holds the  *)
(* readers that were inside a traversal or lookup of a map while           *)
(* process_ips was inside an insert into it.                               *)
(***************************************************************************)
CacheAddresses == {S_ip_dev, S_ip_other}
CacheSerials == {SN_1, SN_2}

\* what sendHttpGetRequest returns to process_ips: error_result or the
\* light's answer with ip = host
CacheInfos(host) ==
    {[ip |-> << >>, serialNumber |-> << >>, error |-> "Failed request"]}
        \cup {[ip |-> host, serialNumber |-> sn, error |-> ""] : sn \in CacheSerials}

\* device_map_to_json: one object per entry, in the order of the keys (of
\* the nine fields the serial number and the address are kept)
DeviceMapToJson(device_map) ==
    LET keys == InOrder(DOMAIN device_map)
    IN  [i \in 1..Len(keys) |->
            [serialNumber |-> device_map[keys[i]].serialNumber, ip |-> device_map[keys[i]].ip]]

\* xSemaphoreTake when it does not have to wait
XSemaphoreTake(mutex, task) ==
    IF mutex = "free" THEN [taken |-> TRUE, mutex |-> task]
    ELSE [taken |-> FALSE, mutex |-> mutex]

\* where a task goes when xSemaphoreTake returned pdFALSE
TakeExpiredIgnored(task) == IF task = "httpd" THEN "read" ELSE "write"
TakeExpired(task) == IF task = "httpd" THEN "busy" ELSE "delay"

CacheHalted == \E task \in DOMAIN cache_pc : cache_pc[task] = "fault"

CacheInit ==
    /\ ParseIdle
    /\ CodecIdle
    /\ MainIdle
    /\ TasksIdle
    /\ BootIdle
    /\ LibIdle
    /\ ApiIdle
    /\ cache_pc = [httpd |-> "idle", updater |-> "build", process_ips |-> "delay"]
    /\ cache = NoCache

\* GET /lights/all arrives: handleGetAllLights starts, server_cache is set
HttpdGetAllLights ==
    /\ ~CacheHalted /\ cache_pc.httpd = "idle"
    /\ cache' = [cache EXCEPT !.json = << >>, !.did_read = FALSE]
    /\ cache_pc' = [cache_pc EXCEPT !.httpd = "take"]
    /\ UNCHANGED cache_frame

\* xSemaphoreTake(server_cache->mutex, 100 ms): taken at once, or the task
\* blocks
HandlerTake ==
    /\ ~CacheHalted /\ cache_pc.httpd = "take"
    /\ LET r == XSemaphoreTake(cache.mutex, "httpd")
       IN  /\ cache' = [cache EXCEPT !.mutex = r.mutex]
           /\ cache_pc' = [cache_pc EXCEPT !.httpd = IF r.taken THEN "read" ELSE "wait"]
    /\ UNCHANGED cache_frame

\* the mutex is given while the handler waits: xSemaphoreTake returns pdTRUE
HandlerAcquire ==
    /\ ~CacheHalted /\ cache_pc.httpd = "wait" /\ cache.mutex = "free"
    /\ cache' = [cache EXCEPT !.mutex = "httpd"]
    /\ cache_pc' = [cache_pc EXCEPT !.httpd = "read"]
    /\ UNCHANGED cache_frame

\* the 100 ms pass and the mutex is still held: xSemaphoreTake returns pdFALSE
HandlerTimeout ==
    /\ ~CacheHalted /\ cache_pc.httpd = "wait" /\ cache.mutex # "free"
    /\ cache_pc' = [cache_pc EXCEPT !.httpd = TakeExpired("httpd")]
    /\ UNCHANGED <<cache, cache_frame>>

\* json = server_cache->cached_devices_json
HandlerRead ==
    /\ ~CacheHalted /\ cache_pc.httpd = "read"
    /\ cache' = [cache EXCEPT !.json = cache.cached_devices_json, !.did_read = TRUE,
                              !.access = [task |-> "httpd", holder |-> cache.mutex]]
    /\ cache_pc' = [cache_pc EXCEPT !.httpd = "give"]
    /\ UNCHANGED cache_frame

\* xSemaphoreGive(server_cache->mutex)
HandlerGive ==
    /\ ~CacheHalted /\ cache_pc.httpd = "give"
    /\ cache' = [cache EXCEPT !.mutex = "free"]
    /\ cache_pc' = [cache_pc EXCEPT !.httpd = "send"]
    /\ UNCHANGED cache_frame

\* httpd_resp_send(req, json.c_str(), json.length())
HandlerSend ==
    /\ ~CacheHalted /\ cache_pc.httpd = "send"
    /\ cache' = [cache EXCEPT !.response = [status |-> 200, json |-> cache.json]]
    /\ cache_pc' = [cache_pc EXCEPT !.httpd = "idle"]
    /\ UNCHANGED cache_frame

\* 503 Service Unavailable, {"error":"Cache busy"}
HandlerBusy ==
    /\ ~CacheHalted /\ cache_pc.httpd = "busy"
    /\ cache' = [cache EXCEPT !.response = [status |-> 503, error |-> "Cache busy"]]
    /\ cache_pc' = [cache_pc EXCEPT !.httpd = "idle"]
    /\ UNCHANGED cache_frame

\* PUT /lights arrives: handleControlLightGroup reaches
\* ctx->device_serial_map->find(serial) for a serial of the group
HttpdControlLights ==
    /\ ~CacheHalted /\ cache_pc.httpd = "idle"
    /\ \E serial \in CacheSerials :
          cache' = [cache EXCEPT !.serial = serial, !.found = FALSE,
                       !.torn = IF cache_pc.process_ips = "insert_serial"
                                THEN @ \cup {"httpd"} ELSE @]
    /\ cache_pc' = [cache_pc EXCEPT !.httpd = "find"]
    /\ UNCHANGED cache_frame

\* find returns; nobody was inserting into the map meanwhile
HandlerFind ==
    /\ ~CacheHalted /\ cache_pc.httpd = "find" /\ "httpd" \notin cache.torn
    /\ LET found == cache.serial \in DOMAIN cache.device_serial_map
       IN  /\ cache' = [cache EXCEPT !.found = found]
           /\ cache_pc' = [cache_pc EXCEPT !.httpd = IF found THEN "set_light" ELSE "results"]
    /\ UNCHANGED cache_frame

\* find walked a tree that was being relinked or an entry that was being
\* assigned: it may return either answer, or meet a broken link
HandlerFindRaced ==
    /\ ~CacheHalted /\ cache_pc.httpd = "find" /\ "httpd" \in cache.torn
    /\ \/ \E found \in BOOLEAN :
             /\ cache' = [cache EXCEPT !.found = found, !.torn = @ \ {"httpd"}]
             /\ cache_pc' = [cache_pc EXCEPT !.httpd = IF found THEN "set_light" ELSE "results"]
       \/ /\ cache' = cache
          /\ cache_pc' = [cache_pc EXCEPT !.httpd = "fault"]
    /\ UNCHANGED cache_frame

\* setLight(deviceInfo.ip, brightness, temperature) returns
HandlerSetLight ==
    /\ ~CacheHalted /\ cache_pc.httpd = "set_light"
    /\ cache_pc' = [cache_pc EXCEPT !.httpd = "results"]
    /\ UNCHANGED <<cache, cache_frame>>

\* the results are sent
HandlerResults ==
    /\ ~CacheHalted /\ cache_pc.httpd = "results"
    /\ cache' = [cache EXCEPT !.response = [status |-> 200, found |-> cache.found]]
    /\ cache_pc' = [cache_pc EXCEPT !.httpd = "idle"]
    /\ UNCHANGED cache_frame

\* update_device_cache_task calls device_map_to_json, which starts to iterate
\* over *device_map
UpdaterEnterTraversal ==
    /\ ~CacheHalted /\ cache_pc.updater = "build"
    /\ cache' = [cache EXCEPT !.torn = IF cache_pc.process_ips = "insert_ip"
                                       THEN @ \cup {"updater"} ELSE @]
    /\ cache_pc' = [cache_pc EXCEPT !.updater = "traverse"]
    /\ UNCHANGED cache_frame

\* device_map_to_json returns; nobody was inserting into the map meanwhile
UpdaterLeaveTraversal ==
    /\ ~CacheHalted /\ cache_pc.updater = "traverse" /\ "updater" \notin cache.torn
    /\ cache' = [cache EXCEPT !.new_json = DeviceMapToJson(cache.device_map)]
    /\ cache_pc' = [cache_pc EXCEPT !.updater = "take"]
    /\ UNCHANGED cache_frame

\* device_map_to_json iterated over a tree that was being relinked: it may
\* have missed any of the entries, or met a broken link
UpdaterLeaveTraversalRaced ==
    /\ ~CacheHalted /\ cache_pc.updater = "traverse" /\ "updater" \in cache.torn
    /\ \/ \E seen \in SUBSET DOMAIN cache.device_map :
             /\ cache' = [cache EXCEPT
                            !.new_json = DeviceMapToJson([k \in seen |-> cache.device_map[k]]),
                            !.torn = @ \ {"updater"}]
             /\ cache_pc' = [cache_pc EXCEPT !.updater = "take"]
       \/ /\ cache' = cache
          /\ cache_pc' = [cache_pc EXCEPT !.updater = "fault"]
    /\ UNCHANGED cache_frame

\* xSemaphoreTake(server_cache->mutex, 1000 ms): taken at once, or the task
\* blocks
UpdaterTake ==
    /\ ~CacheHalted /\ cache_pc.updater = "take"
    /\ LET r == XSemaphoreTake(cache.mutex, "updater")
       IN  /\ cache' = [cache EXCEPT !.mutex = r.mutex]
           /\ cache_pc' = [cache_pc EXCEPT !.updater = IF r.taken THEN "write" ELSE "wait"]
    /\ UNCHANGED cache_frame

\* the mutex is given while the updater waits
UpdaterAcquire ==
    /\ ~CacheHalted /\ cache_pc.updater = "wait" /\ cache.mutex = "free"
    /\ cache' = [cache EXCEPT !.mutex = "updater"]
    /\ cache_pc' = [cache_pc EXCEPT !.updater = "write"]
    /\ UNCHANGED cache_frame

\* the 1000 ms pass and the mutex is still held: the update is skipped and
\* the task goes to vTaskDelay(2000 ms)
UpdaterTimeout ==
    /\ ~CacheHalted /\ cache_pc.updater = "wait" /\ cache.mutex # "free"
    /\ cache_pc' = [cache_pc EXCEPT !.updater = TakeExpired("updater")]
    /\ UNCHANGED <<cache, cache_frame>>

\* server_cache->cached_devices_json = new_json
UpdaterWrite ==
    /\ ~CacheHalted /\ cache_pc.updater = "write"
    /\ cache' = [cache EXCEPT !.cached_devices_json = cache.new_json,
                              !.access = [task |-> "updater", holder |-> cache.mutex]]
    /\ cache_pc' = [cache_pc EXCEPT !.updater = "give"]
    /\ UNCHANGED cache_frame

\* xSemaphoreGive(server_cache->mutex), then vTaskDelay(2000 ms)
UpdaterGive ==
    /\ ~CacheHalted /\ cache_pc.updater = "give"
    /\ cache' = [cache EXCEPT !.mutex = "free"]
    /\ cache_pc' = [cache_pc EXCEPT !.updater = "delay"]
    /\ UNCHANGED cache_frame

\* the delay expires
UpdaterWake ==
    /\ ~CacheHalted /\ cache_pc.updater = "delay"
    /\ cache_pc' = [cache_pc EXCEPT !.updater = "build"]
    /\ UNCHANGED <<cache, cache_frame>>

\* process_ips finds a discovered address that is no key of the map yet and,
\* after vTaskDelay(100 ms), waits in sendHttpGetRequest
ProcessIpsNextItem ==
    /\ ~CacheHalted /\ cache_pc.process_ips = "delay"
    /\ \E item \in CacheAddresses \ DOMAIN cache.device_map :
          cache' = [cache EXCEPT !.item = item]
    /\ cache_pc' = [cache_pc EXCEPT !.process_ips = "http"]
    /\ UNCHANGED cache_frame

\* sendHttpGetRequest returns: with info.error empty process_ips enters
\* device_ip_to_info_map[item] = info
ProcessIpsResponse ==
    /\ ~CacheHalted /\ cache_pc.process_ips = "http"
    /\ \E response \in CacheInfos(cache.item) :
          /\ cache' = [cache EXCEPT !.info = response,
                          !.torn = IF response.error = "" /\ cache_pc.updater = "traverse"
                                   THEN @ \cup {"updater"} ELSE @]
          /\ cache_pc' = [cache_pc EXCEPT
                             !.process_ips = IF response.error = "" THEN "insert_ip" ELSE "delay"]
    /\ UNCHANGED cache_frame

\* the entry of the address-keyed map is in place; process_ips enters
\* device_serial_to_info_map[info.serialNumber] = info
ProcessIpsInsertIp ==
    /\ ~CacheHalted /\ cache_pc.process_ips = "insert_ip"
    /\ cache' = [cache EXCEPT !.device_map = MapPut(@, cache.item, cache.info),
                    !.torn = IF cache_pc.httpd = "find" THEN @ \cup {"httpd"} ELSE @]
    /\ cache_pc' = [cache_pc EXCEPT !.process_ips = "insert_serial"]
    /\ UNCHANGED cache_frame

\* the entry of the serial-keyed map is in place; the loop goes on
ProcessIpsInsertSerial ==
    /\ ~CacheHalted /\ cache_pc.process_ips = "insert_serial"
    /\ cache' = [cache EXCEPT
                    !.device_serial_map = MapPut(@, cache.info.serialNumber, cache.info)]
    /\ cache_pc' = [cache_pc EXCEPT !.process_ips = "delay"]
    /\ UNCHANGED cache_frame

CacheNext ==
    \/ HttpdGetAllLights
    \/ HandlerTake
    \/ HandlerAcquire
    \/ HandlerTimeout
    \/ HandlerRead
    \/ HandlerGive
    \/ HandlerSend
    \/ HandlerBusy
    \/ HttpdControlLights
    \/ HandlerFind
    \/ HandlerFindRaced
    \/ HandlerSetLight
    \/ HandlerResults
    \/ UpdaterEnterTraversal
    \/ UpdaterLeaveTraversal
    \/ UpdaterLeaveTraversalRaced
    \/ UpdaterTake
    \/ UpdaterAcquire
    \/ UpdaterTimeout
    \/ UpdaterWrite
    \/ UpdaterGive
    \/ UpdaterWake
    \/ ProcessIpsNextItem
    \/ ProcessIpsResponse
    \/ ProcessIpsInsertIp
    \/ ProcessIpsInsertSerial

SpecCache == CacheInit /\ [][CacheNext]_vars

(***************************************************************************)
(* Claims about the shared data of the HTTP API, checked under SpecCache.  *)
(***************************************************************************)
\* the task is between its successful xSemaphoreTake and its xSemaphoreGive
HoldsMutex(task) ==
    cache_pc[task] \in {IF task = "httpd" THEN "read" ELSE "write", "give"}

\* every access to cached_devices_json so far was made by the mutex's holder
AccessedUnderMutex ==
    /\ cache.access.task # "none" => cache.access.holder = cache.access.task
    /\ cache_pc.httpd = "read" => cache.mutex = "httpd"
    /\ cache_pc.updater = "write" => cache.mutex = "updater"

\* the mutex is held exactly by a task that is on its way to the give
NeverLeftHeld == \A task \in {"httpd", "updater"} : cache.mutex = task <=> HoldsMutex(task)

\* the handler that answers 503 Cache busy has not read the cache
BusyWithoutReading ==
    /\ cache_pc.httpd = "busy" => ~cache.did_read /\ cache.json = << >>
    /\ (cache_pc.httpd = "idle" /\ cache.response.status = 503)
          => (~cache.did_read /\ cache.json = << >> /\ cache.response.error = "Cache busy")

\* the updater whose take timed out goes to its delay and leaves the cache
\* and the mutex as they were
SkipsUpdate ==
    (cache_pc.updater = "wait" /\ cache_pc'.updater # "wait" /\ cache.mutex' # "updater")
        => (/\ cache_pc'.updater = "delay"
            /\ cache.cached_devices_json' = cache.cached_devices_json
            /\ cache.access' = cache.access
            /\ cache.mutex' = cache.mutex)

\* C32: in every interleaving of the GET /lights/all handler, the cache
\* updater and process_ips, cached_devices_json is read or written only by
\* the task that holds server_cache->mutex; the mutex is held only by a task
\* between its take and its give, so it is never left held; a handler whose
\* take times out answers 503 Cache busy and has not read the cache; an
\* updater whose take times out skips the update.
C32_CacheOnlyUnderMutex ==
    /\ [](AccessedUnderMutex /\ NeverLeftHeld /\ BusyWithoutReading)
    /\ [][SkipsUpdate]_vars

\* the handler has answered 503 because the updater held the mutex, and the
\* updater has stored a device list under the mutex
C32_Witness ==
    /\ cache_pc.httpd = "idle"
    /\ cache.response.status = 503
    /\ cache.access = [task |-> "updater", holder |-> "updater"]
    /\ cache.cached_devices_json # << >>

\* C33: the device maps are never read while they are being modified: in no
\* reachable state is update_device_cache_task inside the traversal of
\* device_map_to_json while process_ips is inside the insert into the
\* address-keyed map, nor the PUT /lights handler inside find while
\* process_ips is inside the insert into the serial-keyed map.
C33_MapsNotReadWhileModified ==
    /\ ~(cache_pc.process_ips = "insert_ip" /\ cache_pc.updater = "traverse")
    /\ ~(cache_pc.process_ips = "insert_serial" /\ cache_pc.httpd = "find")

(***************************************************************************)
(* Claim about the WiFi event handler, checked under SpecBoot.             *)
(***************************************************************************)
GaveUp == boot.last_event = [id |-> "WIFI_EVENT_STA_DISCONNECTED", connect |-> FALSE]

\* the counter and the reconnect attempts made on disconnects stay within
\* the maximum; a disconnect that triggered no reconnect found the counter at
\* the maximum and set WIFI_FAIL_BIT
RetryWithinBound ==
    /\ boot.s_retry_num \in 0..EXAMPLE_ESP_MAXIMUM_RETRY
    /\ boot.reconnects \in 0..EXAMPLE_ESP_MAXIMUM_RETRY
    /\ GaveUp => (boot.s_retry_num = EXAMPLE_ESP_MAXIMUM_RETRY /\ "WIFI_FAIL_BIT" \in boot.bits)

\* with the counter at the maximum, a step other than IP_EVENT_STA_GOT_IP
\* calls esp_wifi_connect no more and leaves the counter where it is; a
\* disconnect sets WIFI_FAIL_BIT
NoReconnectAtMaximum ==
    (boot.s_retry_num = EXAMPLE_ESP_MAXIMUM_RETRY /\ boot'.last_event.id # "IP_EVENT_STA_GOT_IP")
        => (/\ boot'.reconnects = boot.reconnects
            /\ boot'.s_retry_num = boot.s_retry_num
            /\ boot'.last_event.connect => boot'.last_event = boot.last_event
            /\ boot'.last_event # boot.last_event => "WIFI_FAIL_BIT" \in boot'.bits)

\* below the maximum each disconnect triggers one reconnect attempt, and
\* IP_EVENT_STA_GOT_IP puts the counter back to 0
ReconnectBelowMaximum ==
    /\ (boot.s_retry_num < EXAMPLE_ESP_MAXIMUM_RETRY /\ boot'.s_retry_num # boot.s_retry_num
           /\ boot'.last_event.id = "WIFI_EVENT_STA_DISCONNECTED")
          => (/\ boot'.s_retry_num = boot.s_retry_num + 1
              /\ boot'.reconnects = boot.reconnects + 1
              /\ boot'.last_event.connect)
    /\ (boot'.last_event.id = "IP_EVENT_STA_GOT_IP" /\ boot'.last_event # boot.last_event)
          => boot'.s_retry_num = 0

\* C34: over any sequence of WiFi events the retry counter stays within
\* 0..5; after the start or an IP_EVENT_STA_GOT_IP at most 5 disconnects
\* trigger a reconnect attempt each, the next disconnect sets WIFI_FAIL_BIT
\* and triggers none, and no further disconnect triggers one until an
\* IP_EVENT_STA_GOT_IP puts the counter back to 0.
C34_RetryBound ==
    /\ []RetryWithinBound
    /\ [][NoReconnectAtMaximum /\ ReconnectBelowMaximum]_vars

\* the station had an address, lost the link, and the handler has given up
\* after five reconnect attempts
C34_Witness ==
    /\ GaveUp
    /\ "WIFI_CONNECTED_BIT" \in boot.bits
    /\ boot.reconnects = EXAMPLE_ESP_MAXIMUM_RETRY

(***************************************************************************)
(* Claim about what one call of mdns_socket_task leaves alone, checked     *)
(* under Spec.                                                             *)
(***************************************************************************)
\* the call has returned from a datagram that holds a header
HeaderReceived == pc = "delay" /\ Len(rx) >= 12
QrClear == ReadU16(rx, 2) < 32768
Qdcount == ReadU16(rx, 4)

QueryLeavesSet ==
    (HeaderReceived /\ QrClear) => (effect.res.ins = << >> /\ set_ip = effect.before)

ResponseSendsNothing ==
    (HeaderReceived /\ ~QrClear) => effect.res.sent = << >>

EmptyQueryDoesNothing ==
    (HeaderReceived /\ QrClear /\ Qdcount = 0)
        => (effect.res.sent = << >> /\ effect.res.ins = << >> /\ set_ip = effect.before)

\* a call that receives goes on to return, and what it did is what the one
\* datagram in buf accounts for
OneDatagramPerCall ==
    (pc = "recv" /\ pc' # pc)
        => (/\ pc' = "delay"
            /\ effect'.before = set_ip
            /\ effect'.res = IF rx' = << >> THEN NoEffect ELSE MdnsSocketTask(net_config, rx')
            /\ set_ip' = set_ip \cup Range(effect'.res.ins))

\* C35: one call of mdns_socket_task receives at most one datagram; a packet
\* with QR clear never changes the discovered-address set; a packet with QR
\* set never makes the task send; a query with QDCOUNT 0 has no effect.
C35_FrameConditions ==
    /\ [](QueryLeavesSet /\ ResponseSendsNothing /\ EmptyQueryDoesNothing)
    /\ [][OneDatagramPerCall]_vars

\* a query for the hostname that carries an address record of the target
\* name was answered and inserted nothing
C35_Witness ==
    /\ HeaderReceived /\ QrClear
    /\ src.rs = <<R_a_elg>>
    /\ Len(effect.res.sent) = 1
    /\ set_ip = {}

(***************************************************************************)
(* Claim about the firmware hearing itself, checked under SpecCodec: the   *)
(* datagrams of spam_mdns_announcements are handed to mdns_socket_task     *)
(* under the configuration of the same firmware.                           *)
(***************************************************************************)
\* the three calls of spam_mdns_announcements, with any address as wifi_ip
OwnAnnouncement ==
    /\ cd_in.kind = "ann"
    /\ cd_in.service_type = S_http /\ cd_in.instance_name = S_instance
    /\ cd_in.hostname = S_hostname /\ cd_in.port = 80 /\ cd_in.txt_records = << >>
OwnARecord == cd_in.kind = "arec" /\ cd_in.hostname = S_hostname
OwnQuery == cd_in.kind = "query" /\ cd_in.qname = S_elg

HeardOwn == cd_pc = "done" /\ (OwnAnnouncement \/ OwnARecord \/ OwnQuery)

\* C36: receiving back the PTR query, the service announcement or the
\* A-record announcement the firmware itself multicasts causes neither a
\* send nor an insertion into the discovered-address set.
C36_NoReactionToOwnTransmissions ==
    HeardOwn => (cd_out.walk.sent = << >> /\ cd_out.walk.ins = << >>)

\* the firmware has heard its own service announcement, which carries the
\* A record of its hostname, and did nothing
C36_Witness ==
    /\ HeardOwn /\ OwnAnnouncement
    /\ cd_in.ipv4_addr = S_ip_self
    /\ Len(cd_out.walk.recs) >= 3
    /\ cd_out.walk.sent = << >> /\ cd_out.walk.ins = << >>


(***************************************************************************)
(* The reads of the receive buffer, under Spec.  effect.res.hi is the      *)
(* highest index of buf one call has read (the header, the names as        *)
(* parse_name walks them, the fixed fields, the address bytes handed to    *)
(* inet_ntop) and effect.res.turns the loop turns it has begun.            *)
(***************************************************************************)
RrTotal == ReadU16(rx, 6) + ReadU16(rx, 8) + ReadU16(rx, 10)

\* no byte at or beyond the received length is read
ReadsInsideDatagram == effect.res.hi < Len(rx)

\* the same for parse_name alone, on every byte sequence SpecParse feeds it
ParseReadsInside == pn_st.hi < Len(pn_msg)

\* the loops end within the turns the header counts allow
LoopsEnd == HeaderReceived => effect.res.turns <= Qdcount + RrTotal

\* C37: whatever the datagram holds and whatever its header counts say, a
\* call of mdns_socket_task reads the receive buffer only at indices below
\* the received length (names, fixed question and record fields, address
\* bytes), and its question and record loops terminate.
C37_ReadsStayInsideDatagram == ReadsInsideDatagram /\ LoopsEnd

\* a response that lost the last two bytes of an address was walked for two
\* turns or more: the call read the fixed fields of the cut record and left
\* the two address bytes that arrived unread
C37_Witness ==
    /\ HeaderReceived /\ ~QrClear /\ src.cut = 2
    /\ effect.res.turns >= 2 /\ effect.res.recs # << >>
    /\ effect.res.hi = Len(rx) - 3


(***************************************************************************)
(* The groups served and the groups stored, under SpecApi.  At reboot a    *)
(* new LightGroupCache starts empty and loads the string the store holds.  *)
(***************************************************************************)
\* the last saveToNVS succeeded: the store holds the serialization of the
\* groups now served (at the start, of none)
StoreWritten == api.nvs = SerializeGroups(api.groupMap)

\* loadFromNVS of a new cache
Reloaded == LoadFromNVS(<< >>, api.nvs)

\* no group name or serial served contains '|', ',' or ';'
SeparatorFree ==
    \A g \in DOMAIN api.groupMap :
        /\ \A k \in 1..Len(g) : g[k] \notin {Pipe, Comma, Semicolon}
        /\ \A n \in 1..Len(api.groupMap[g]) :
               \A k \in 1..Len(api.groupMap[g][n]) :
                   api.groupMap[g][n][k] \notin {Pipe, Comma, Semicolon}

\* C38: after PUT /lights/group requests answered with success whose NVS
\* writes succeeded, reloading the cache from the stored string, as at
\* reboot, gives exactly the group map that was served, for every group name
\* and serial list the handler accepts.
C38_ReloadYieldsServedGroups == StoreWritten => Reloaded = api.groupMap

\* the same for the names and serials without a separator
ReloadYieldsSeparatorFreeGroups ==
    (StoreWritten /\ SeparatorFree) => Reloaded = api.groupMap


\* handleSetLightGroup answered the last request with 400
SetGroupRefused ==
    api.response.handler = "handleSetLightGroup" /\ api.response.status = 400

\* the five refusals of handleSetLightGroup, by the body of the request
RefusedBody(body) ==
    \/ body.kind = "none"
    \/ body.kind = "text"
    \/ /\ body.kind = "json"
       /\ \/ ~IsType(body.root, "groupName", "string")
          \/ ~IsType(body.root, "serialNumbers", "array")
          \/ \A k \in 1..Len(body.root.serialNumbers.items) :
                 body.root.serialNumbers.items[k].type # "string"

\* C39: a PUT /lights/group request answered with 400 (unreadable body,
\* invalid JSON, groupName not a string, serialNumbers not an array, no
\* string among the serialNumbers) leaves the grouping cache as it was and
\* writes nothing to NVS: the cache and the store are as when the request
\* arrived, and the handler did nothing but send the response.
C39_RefusedChangesNothing ==
    /\ SetGroupRefused =>
          /\ RefusedBody(api.request.body)
          /\ api.groupMap = api.at_request.groupMap
          /\ api.nvs = api.at_request.nvs
          /\ api.steps = <<[op |-> "send", status |-> 400]>>
    /\ (api.response.handler = "handleSetLightGroup" /\ RefusedBody(api.request.body))
          => api.response.status = 400

\* a group is served, an earlier write to the store failed, and a request
\* whose serialNumbers hold no string was refused
C39_Witness ==
    /\ SetGroupRefused
    /\ api.request.body.kind = "json"
    /\ IsType(api.request.body.root, "serialNumbers", "array")
    /\ api.request.body.root.serialNumbers.items # << >>
    /\ api.groupMap # << >>
    /\ api.nvs # SerializeGroups(api.groupMap)

=============================================================================
